---- MODULE Spec2Model ----
(***************************************************************************)
(* Ghost Chat: the client-side engine (static/js/ghost-engine.js).         *)
(* Password-based authenticated encryption, the Ghost Protocol wire        *)
(* format and the LSB steganographic codec, with the offline pipeline of   *)
(* static/js/main.js that composes them.                                   *)
(***************************************************************************)
EXTENDS Integers, Sequences, FiniteSets, TLC

(***************************************************************************)
(* Bounds of the model.                                                    *)
(***************************************************************************)
MaxW == 8
MaxH == 2
MaxPayload == 3
MaxCalls == 2

(***************************************************************************)
(* Protocol constants (ghost-engine.js, lines 8-13).                       *)
(***************************************************************************)
MAGIC == <<71, 72, 83, 84>>
VERSION == 1
HEADER_SIZE == 68
TAG_SIZE == 16
NONCE_SIZE == 16
SALT_SIZE == 32

(***************************************************************************)
(* Bytes and bit operations of the JavaScript code.                        *)
(***************************************************************************)
Byte == 0..255

RECURSIVE Pow2(_)
Pow2(n) == IF n = 0 THEN 1 ELSE 2 * Pow2(n - 1)

\* The 1-based position in the pixel buffer of the k-th R/G/B channel byte
\* (k from 0) in traversal order: pixels in raster order, R, G, B within.
ChannelPos(k) == 4 * (k \div 3) + (k % 3) + 1

\* Bit k (from 0) of a byte sequence, most significant bit of each byte first.
BitOf(bytes, k) == (bytes[(k \div 8) + 1] \div Pow2(7 - (k % 8))) % 2

\* uint8array.slice(from, to) with 0-based, end-exclusive indices, clamped
\* to the array as Uint8Array.prototype.slice clamps them.
Slice(bytes, from, to) ==
    LET hi == IF to > Len(bytes) THEN Len(bytes) ELSE to
        lo == IF from > hi THEN hi ELSE from
    IN  [k \in 1..(hi - lo) |-> bytes[lo + k]]

\* typedArray.set(src, offset): overwrite dst from 0-based offset.
SetAt(dst, src, offset) ==
    [k \in 1..Len(dst) |->
        IF k > offset /\ k <= offset + Len(src) THEN src[k - offset] ELSE dst[k]]

Zeros(n) == [k \in 1..n |-> 0]

\* DataView.setUint32(0, v, false): the four bytes of v, most significant first.
Uint32BE(v) ==
    << (v \div 16777216) % 256, (v \div 65536) % 256, (v \div 256) % 256, v % 256 >>

\* DataView.setUint16(0, v, false).
Uint16BE(v) == << (v \div 256) % 256, v % 256 >>

\* (x << 1) | bit on a JavaScript int32: the result wraps to a signed 32-bit
\* value, so bit 30 of x becomes the sign bit.  Computed without leaving
\* the 32-bit range.
Shl1Or(x, bit) ==
    LET low31 == IF x >= 0 THEN x ELSE (x + 1073741824) + 1073741824
        low30 == low31 % 1073741824
        top   == low31 \div 1073741824
        v     == 2 * low30 + bit
    IN  IF top = 1 THEN (v - 1073741824) - 1073741824 ELSE v

(***************************************************************************)
(* LSB codec.                                                              *)
(***************************************************************************)

\* Math.floor((width * height * 3) / 8)
CapacityBytes_alpha(width, height) == (width * height * 4) \div 8
CapacityBytes(width, height) == (width * height * 3) \div 8

\* pixels[idx] = (pixels[idx] & ~1) | bit, idx 0-based
WriteLSB_next(pixels, idx, bit) ==
    [pixels EXCEPT ![idx + 2] = (@ - (@ % 2)) + bit]
WriteLSB_mask3(pixels, idx, bit) ==
    [pixels EXCEPT ![idx + 1] = (@ - (@ % 4)) + bit]
WriteLSB(pixels, idx, bit) ==
    [pixels EXCEPT ![idx + 1] = (@ - (@ % 2)) + bit]

\* Body of the inner loop of embedLSB for channel j of the pixel at byte
\* offset i, followed by the remaining channels of that pixel.  s holds the
\* loop variables: the pixel buffer, dataIdx and bitIdx.
RECURSIVE EmbedChannels(_, _, _, _)
EmbedChannels(s, fullPayload, i, j) ==
    IF j >= 3 \/ s.dataIdx >= Len(fullPayload) THEN s
    ELSE LET byte == fullPayload[s.dataIdx + 1]
             bit  == (byte \div Pow2(7 - s.bitIdx)) % 2
             px   == WriteLSB(s.pixels, i + j, bit)
             next == IF s.bitIdx + 1 = 8
                     THEN [s EXCEPT !.pixels = px, !.bitIdx = 0, !.dataIdx = @ + 1]
                     ELSE [s EXCEPT !.pixels = px, !.bitIdx = @ + 1]
         IN  EmbedChannels(next, fullPayload, i, j + 1)

\* One iteration of the outer loop (pixel number p, byte offset 4p), with
\* the break test that ends it.
EmbedPixel(s, fullPayload, p) ==
    LET t == EmbedChannels(s, fullPayload, 4 * p, 0)
    IN  [t EXCEPT !.broke = (t.dataIdx >= Len(fullPayload))]

\* The iterations lo .. hi-1 of the outer loop, in order; a break in one
\* iteration skips all later ones.
RECURSIVE EmbedLoop(_, _, _, _)
EmbedLoop(s, fullPayload, lo, hi) ==
    IF hi <= lo THEN s
    ELSE IF hi = lo + 1 THEN EmbedPixel(s, fullPayload, lo)
    ELSE LET mid  == (lo + hi) \div 2
             left == EmbedLoop(s, fullPayload, lo, mid)
         IN  IF left.broke THEN left ELSE EmbedLoop(left, fullPayload, mid, hi)

\* for (let i = 0; i < pixels.length; i += 4): the pixel buffer after the loop.
EmbedBits(pixels, fullPayload) ==
    EmbedLoop([pixels |-> pixels, dataIdx |-> 0, bitIdx |-> 0, broke |-> FALSE],
              fullPayload, 0, (Len(pixels) + 3) \div 4).pixels

\* fullPayload = 4-byte big-endian length || secretData
FullPayload_littleEndian(secretData) ==
    << Len(secretData) % 256, (Len(secretData) \div 256) % 256,
       (Len(secretData) \div 65536) % 256, (Len(secretData) \div 16777216) % 256 >>
        \o secretData
FullPayload(secretData) == Uint32BE(Len(secretData)) \o secretData

\* embedLSB(imageData, secretData): the outcome and the pixel buffer the
\* call leaves behind (the buffer is mutated in place).
embedLSB_lateCheck(imageData, secretData) ==
    LET fullPayload   == FullPayload(secretData)
        capacityBytes == CapacityBytes(imageData.width, imageData.height)
        written       == EmbedBits(imageData.data, fullPayload)
    IN  IF Len(fullPayload) > capacityBytes
        THEN [threw |-> "DataTooLarge", data |-> written]
        ELSE [threw |-> "none", data |-> written]
embedLSB(imageData, secretData) ==
    LET fullPayload   == FullPayload(secretData)
        capacityBytes == CapacityBytes(imageData.width, imageData.height)
    IN  IF Len(fullPayload) > capacityBytes
        THEN [threw |-> "DataTooLarge", data |-> imageData.data]
        ELSE [threw |-> "none", data |-> EmbedBits(imageData.data, fullPayload)]

\* The loop variables of extractLSB (msgLen === null is haveLen = FALSE);
\* exit records how the function was left: "return", a thrown error, or
\* "break" out of the outer loop.
ExtractStart ==
    [currentByte |-> 0, bitCount |-> 0, lengthHeader |-> 0, lengthBitsRead |-> 0,
     haveLen |-> FALSE, msgLen |-> 0, msgBytesRead |-> 0, bytes |-> <<>>,
     exit |-> "running"]

\* Body of the inner loop of extractLSB for one channel bit.
ExtractBit_lsbFirst(s, bit, capacityBytes) ==
    IF ~s.haveLen
    THEN LET lh == Shl1Or(s.lengthHeader, bit)
             n  == s.lengthBitsRead + 1
         IN  IF n = 32
             THEN [s EXCEPT !.lengthHeader = lh, !.lengthBitsRead = n,
                            !.haveLen = TRUE, !.msgLen = lh,
                            !.exit = IF lh < 0 \/ lh > capacityBytes
                                     THEN "InvalidHeader" ELSE "running"]
             ELSE [s EXCEPT !.lengthHeader = lh, !.lengthBitsRead = n]
    ELSE LET cb == s.currentByte + bit * Pow2(s.bitCount)
             bc == s.bitCount + 1
         IN  IF bc = 8
             THEN [s EXCEPT !.bytes = Append(@, cb), !.msgBytesRead = @ + 1,
                            !.currentByte = 0, !.bitCount = 0,
                            !.exit = IF s.msgBytesRead + 1 = s.msgLen
                                     THEN "return" ELSE "running"]
             ELSE [s EXCEPT !.currentByte = cb, !.bitCount = bc]
ExtractBit_noSignCheck(s, bit, capacityBytes) ==
    IF ~s.haveLen
    THEN LET lh == Shl1Or(s.lengthHeader, bit)
             n  == s.lengthBitsRead + 1
         IN  IF n = 32
             THEN [s EXCEPT !.lengthHeader = lh, !.lengthBitsRead = n,
                            !.haveLen = TRUE, !.msgLen = lh,
                            !.exit = IF lh > capacityBytes
                                     THEN "InvalidHeader" ELSE "running"]
             ELSE [s EXCEPT !.lengthHeader = lh, !.lengthBitsRead = n]
    ELSE LET cb == 2 * s.currentByte + bit
             bc == s.bitCount + 1
         IN  IF bc = 8
             THEN [s EXCEPT !.bytes = Append(@, cb), !.msgBytesRead = @ + 1,
                            !.currentByte = 0, !.bitCount = 0,
                            !.exit = IF s.msgBytesRead + 1 = s.msgLen
                                     THEN "return" ELSE "running"]
             ELSE [s EXCEPT !.currentByte = cb, !.bitCount = bc]
ExtractBit(s, bit, capacityBytes) ==
    IF ~s.haveLen
    THEN LET lh == Shl1Or(s.lengthHeader, bit)
             n  == s.lengthBitsRead + 1
         IN  IF n = 32
             THEN [s EXCEPT !.lengthHeader = lh, !.lengthBitsRead = n,
                            !.haveLen = TRUE, !.msgLen = lh,
                            !.exit = IF lh < 0 \/ lh > capacityBytes
                                     THEN "InvalidHeader" ELSE "running"]
             ELSE [s EXCEPT !.lengthHeader = lh, !.lengthBitsRead = n]
    ELSE LET cb == 2 * s.currentByte + bit
             bc == s.bitCount + 1
         IN  IF bc = 8
             THEN [s EXCEPT !.bytes = Append(@, cb), !.msgBytesRead = @ + 1,
                            !.currentByte = 0, !.bitCount = 0,
                            !.exit = IF s.msgBytesRead + 1 = s.msgLen
                                     THEN "return" ELSE "running"]
             ELSE [s EXCEPT !.currentByte = cb, !.bitCount = bc]

RECURSIVE ExtractChannels(_, _, _, _)
ExtractChannels(s, imageData, i, j) ==
    IF j >= 3 \/ s.exit # "running" THEN s
    ELSE ExtractChannels(
            ExtractBit(s, imageData.data[i + j + 1] % 2,
                       CapacityBytes(imageData.width, imageData.height)),
            imageData, i, j + 1)

\* One iteration of the outer loop, with the break test that ends it.
ExtractPixel(s, imageData, p) ==
    LET t == ExtractChannels(s, imageData, 4 * p, 0)
    IN  IF t.exit = "running" /\ t.haveLen /\ t.msgBytesRead = t.msgLen
        THEN [t EXCEPT !.exit = "break"]
        ELSE t

\* The iterations lo .. hi-1 of the outer loop, in order; a return, throw
\* or break in one iteration skips all later ones.
RECURSIVE ExtractLoop(_, _, _, _)
ExtractLoop(s, imageData, lo, hi) ==
    IF hi <= lo THEN s
    ELSE IF hi = lo + 1 THEN ExtractPixel(s, imageData, lo)
    ELSE LET mid  == (lo + hi) \div 2
             left == ExtractLoop(s, imageData, lo, mid)
         IN  IF left.exit # "running" THEN left
             ELSE ExtractLoop(left, imageData, mid, hi)

\* extractLSB(imageData): the bytes returned, or the error thrown (falling
\* out of the loop, by exhaustion or by break, reaches the final throw).
\* dataBits is the number of channel bits read after the length header.
extractLSB_partial(imageData) ==
    LET s == ExtractLoop(ExtractStart, imageData, 0, (Len(imageData.data) + 3) \div 4)
        n == 8 * s.msgBytesRead + s.bitCount
    IN  IF s.exit = "InvalidHeader"
        THEN [threw |-> "InvalidHeader", ret |-> <<>>, dataBits |-> n]
        ELSE IF s.exit = "return" \/ s.msgBytesRead > 0
        THEN [threw |-> "none", ret |-> s.bytes, dataBits |-> n]
        ELSE [threw |-> "Incomplete", ret |-> <<>>, dataBits |-> n]
extractLSB_readAll(imageData) ==
    LET s == ExtractLoop(ExtractStart, imageData, 0, (Len(imageData.data) + 3) \div 4)
        n == 8 * s.msgBytesRead + s.bitCount
        rest == (3 * (Len(imageData.data) \div 4) - 32 - n) \div 8
        more == [m \in 1..rest |->
                    LET k == 32 + n + 8 * (m - 1) IN
                    128 * (imageData.data[ChannelPos(k)] % 2)
                    + 64 * (imageData.data[ChannelPos(k + 1)] % 2)
                    + 32 * (imageData.data[ChannelPos(k + 2)] % 2)
                    + 16 * (imageData.data[ChannelPos(k + 3)] % 2)
                    + 8 * (imageData.data[ChannelPos(k + 4)] % 2)
                    + 4 * (imageData.data[ChannelPos(k + 5)] % 2)
                    + 2 * (imageData.data[ChannelPos(k + 6)] % 2)
                    + (imageData.data[ChannelPos(k + 7)] % 2)]
    IN  IF s.exit = "return"
        THEN [threw |-> "none", ret |-> s.bytes \o more, dataBits |-> n + 8 * rest]
        ELSE IF s.exit = "InvalidHeader"
        THEN [threw |-> "InvalidHeader", ret |-> <<>>, dataBits |-> n]
        ELSE [threw |-> "Incomplete", ret |-> <<>>, dataBits |-> n]
extractLSB(imageData) ==
    LET s == ExtractLoop(ExtractStart, imageData, 0, (Len(imageData.data) + 3) \div 4)
        n == 8 * s.msgBytesRead + s.bitCount
    IN  IF s.exit = "return" THEN [threw |-> "none", ret |-> s.bytes, dataBits |-> n]
        ELSE IF s.exit = "InvalidHeader"
        THEN [threw |-> "InvalidHeader", ret |-> <<>>, dataBits |-> n]
        ELSE [threw |-> "Incomplete", ret |-> <<>>, dataBits |-> n]

(***************************************************************************)
(* Text encoding.  A string is a sequence of Unicode scalar values: the    *)
(* form values the handlers read with formData.get are scalar-value        *)
(* strings, so they hold no lone surrogate.                                *)
(***************************************************************************)
REPLACEMENT == 65533
BOM == 65279

\* TextEncoder.encode of one code point (a surrogate is encoded as U+FFFD).
Utf8EncodeChar(c) ==
    LET cp == IF c >= 55296 /\ c <= 57343 THEN REPLACEMENT ELSE c IN
    IF cp < 128 THEN <<cp>>
    ELSE IF cp < 2048 THEN <<192 + (cp \div 64), 128 + (cp % 64)>>
    ELSE IF cp < 65536
         THEN <<224 + (cp \div 4096), 128 + ((cp \div 64) % 64), 128 + (cp % 64)>>
    ELSE <<240 + (cp \div 262144), 128 + ((cp \div 4096) % 64),
           128 + ((cp \div 64) % 64), 128 + (cp % 64)>>

\* new TextEncoder().encode(str)
RECURSIVE Utf8Encode(_)
Utf8Encode(str) ==
    IF str = <<>> THEN <<>> ELSE Utf8EncodeChar(Head(str)) \o Utf8Encode(Tail(str))

IsCont(bytes, k, lo, hi) == k <= Len(bytes) /\ bytes[k] >= lo /\ bytes[k] <= hi

\* The UTF-8 decoder of TextDecoder from 1-based position k: a malformed
\* or truncated sequence yields U+FFFD and decoding resumes at the first
\* byte that does not continue it.
RECURSIVE Utf8DecodeFrom(_, _)
Utf8DecodeFrom(bytes, k) ==
    IF k > Len(bytes) THEN <<>>
    ELSE LET b == bytes[k] IN
         IF b < 128 THEN <<b>> \o Utf8DecodeFrom(bytes, k + 1)
         ELSE IF b >= 194 /\ b <= 223
         THEN IF IsCont(bytes, k + 1, 128, 191)
              THEN <<(b - 192) * 64 + (bytes[k + 1] - 128)>> \o Utf8DecodeFrom(bytes, k + 2)
              ELSE <<REPLACEMENT>> \o Utf8DecodeFrom(bytes, k + 1)
         ELSE IF b >= 224 /\ b <= 239
         THEN LET lo == IF b = 224 THEN 160 ELSE 128
                  hi == IF b = 237 THEN 159 ELSE 191
              IN  IF ~IsCont(bytes, k + 1, lo, hi)
                  THEN <<REPLACEMENT>> \o Utf8DecodeFrom(bytes, k + 1)
                  ELSE IF ~IsCont(bytes, k + 2, 128, 191)
                  THEN <<REPLACEMENT>> \o Utf8DecodeFrom(bytes, k + 2)
                  ELSE <<(b - 224) * 4096 + (bytes[k + 1] - 128) * 64
                         + (bytes[k + 2] - 128)>> \o Utf8DecodeFrom(bytes, k + 3)
         ELSE IF b >= 240 /\ b <= 244
         THEN LET lo == IF b = 240 THEN 144 ELSE 128
                  hi == IF b = 244 THEN 143 ELSE 191
              IN  IF ~IsCont(bytes, k + 1, lo, hi)
                  THEN <<REPLACEMENT>> \o Utf8DecodeFrom(bytes, k + 1)
                  ELSE IF ~IsCont(bytes, k + 2, 128, 191)
                  THEN <<REPLACEMENT>> \o Utf8DecodeFrom(bytes, k + 2)
                  ELSE IF ~IsCont(bytes, k + 3, 128, 191)
                  THEN <<REPLACEMENT>> \o Utf8DecodeFrom(bytes, k + 3)
                  ELSE <<(b - 240) * 262144 + (bytes[k + 1] - 128) * 4096
                         + (bytes[k + 2] - 128) * 64 + (bytes[k + 3] - 128)>>
                       \o Utf8DecodeFrom(bytes, k + 4)
         ELSE <<REPLACEMENT>> \o Utf8DecodeFrom(bytes, k + 1)

\* new TextDecoder().decode(bytes): the decoder is built with its default
\* options, so a leading byte order mark EF BB BF is consumed, not output.
Utf8Decode_keepBOM(bytes) == Utf8DecodeFrom(bytes, 1)
Utf8Decode(bytes) ==
    IF Len(bytes) >= 3 /\ bytes[1] = 239 /\ bytes[2] = 187 /\ bytes[3] = 191
    THEN Utf8DecodeFrom(bytes, 4)
    ELSE Utf8DecodeFrom(bytes, 1)

(***************************************************************************)
(* Key derivation and the cipher.  PBKDF2 is a deterministic function of   *)
(* (password bytes, salt) with no collisions; AES-GCM is an ideal          *)
(* authenticated cipher: decryption succeeds exactly on the               *)
(* (key, iv, ciphertext, tag) combinations that encryption has produced.   *)
(***************************************************************************)

\* deriveKey(passwordBytes, salt)
deriveKey_noPassword(passwordBytes, salt) == [password |-> <<>>, salt |-> salt]
deriveKey_halfSalt(passwordBytes, salt) ==
    [password |-> passwordBytes, salt |-> SubSeq(salt, 1, 16)]
deriveKey(passwordBytes, salt) == [password |-> passwordBytes, salt |-> salt]

RECURSIVE SumBytes(_)
SumBytes(bytes) == IF bytes = <<>> THEN 0 ELSE (Head(bytes) + SumBytes(Tail(bytes))) % 256

\* The counter-mode key stream byte k for (key, iv): some fixed function.
KeyStream(key, iv, k) ==
    (SumBytes(key.password) + (3 * SumBytes(key.salt)) + (5 * SumBytes(iv)) + (7 * k) + 89) % 256

\* The n-th tag the cipher hands out: 16 bytes, never handed out twice.
Tag(n) == [k \in 1..16 |-> ((17 * n) + (11 * k) + 3) % 256]

\* crypto.subtle.encrypt({name: "AES-GCM", iv, tagLength: 128}, key, data):
\* ciphertext of the length of data, followed by the 16-byte tag.  cipher
\* is the set of encryptions made so far.
AesGcmEncrypt(cipher, key, iv, data) ==
    [k \in 1..Len(data) |-> (data[k] + KeyStream(key, iv, k)) % 256]
        \o Tag(Cardinality(cipher))

\* crypto.subtle.decrypt(...): the plaintext, or a rejection when the tag
\* does not authenticate (key, iv, ciphertext).
AesGcmDecrypt(cipher, key, iv, data) ==
    LET n   == Len(data) - 16
        ct  == SubSeq(data, 1, n)
        tag == SubSeq(data, n + 1, Len(data))
        hit == {e \in cipher : e.key = key /\ e.iv = iv /\ e.ct = ct /\ e.tag = tag}
    IN  IF n < 0 \/ hit = {} THEN [ok |-> FALSE, data |-> <<>>]
        ELSE [ok |-> TRUE, data |-> (CHOOSE e \in hit : TRUE).pt]

(***************************************************************************)
(* Ghost Protocol codec.  A Uint8Array is [buffer, byteOffset, length]:    *)
(* a window on the bytes of its ArrayBuffer.                               *)
(***************************************************************************)
Uint8Array(bytes) == [buffer |-> bytes, byteOffset |-> 0, length |-> Len(bytes)]

\* The bytes a Uint8Array shows.
Bytes(ta) == SubSeq(ta.buffer, ta.byteOffset + 1, ta.byteOffset + ta.length)

\* pack(data): the header fields written in turn into a zeroed buffer.
pack_littleEndian(data) ==
    LET n  == Len(data.ciphertext)
        b0 == Zeros(68 + n + 16)
        b1 == SetAt(b0, MAGIC, 0)
        b2 == SetAt(b1, Uint16BE(VERSION), 4)
        b3 == SetAt(b2, <<n % 256, (n \div 256) % 256, (n \div 65536) % 256,
                          (n \div 16777216) % 256>>, 6)
        b4 == SetAt(b3, data.salt, 10)
        b5 == SetAt(b4, data.nonce, 42)
        b6 == SetAt(b5, data.ciphertext, 68)
        b7 == SetAt(b6, data.tag, 68 + n)
    IN  Uint8Array(b7)
pack(data) ==
    LET n  == Len(data.ciphertext)
        b0 == Zeros(68 + n + 16)
        b1 == SetAt(b0, MAGIC, 0)
        b2 == SetAt(b1, Uint16BE(VERSION), 4)
        b3 == SetAt(b2, Uint32BE(n), 6)
        b4 == SetAt(b3, data.salt, 4 + 2 + 4)
        b5 == SetAt(b4, data.nonce, 4 + 2 + 4 + 32)
        b6 == SetAt(b5, data.ciphertext, 4 + 2 + 4 + 32 + 16 + 10)
        b7 == SetAt(b6, data.tag, 4 + 2 + 4 + 32 + 16 + 10 + n)
    IN  Uint8Array(b7)

\* view.getUint32(off, false), saturated at 2^31 - 1: the value is only
\* compared with buffer lengths, which are far below that.
GetUint32BE(bytes, off) ==
    IF bytes[off + 1] >= 128 THEN 2147483647
    ELSE bytes[off + 1] * 16777216 + bytes[off + 2] * 65536
         + bytes[off + 3] * 256 + bytes[off + 4]

\* view.getUint16(off, false)
GetUint16BE(bytes, off) == bytes[off + 1] * 256 + bytes[off + 2]

Null == [isNull |-> TRUE, salt |-> <<>>, nonce |-> <<>>, ciphertext |-> <<>>, tag |-> <<>>]

\* unpack(buffer): the DataView and the byte array are built on
\* buffer.buffer, the whole ArrayBuffer behind the argument.
unpack_noReserved(buffer) ==
    LET bytes == buffer.buffer IN
    IF Len(bytes) < 68 THEN Null
    ELSE IF bytes[1] # 71 \/ bytes[2] # 72 \/ bytes[3] # 83 \/ bytes[4] # 84 THEN Null
    ELSE LET cipherLen == GetUint32BE(bytes, 6)
             offset    == 4 + 2 + 4 + 32 + 16
         IN  IF Len(bytes) - offset - 16 < cipherLen THEN Null
             ELSE [isNull |-> FALSE,
                   salt |-> Slice(bytes, 10, 42), nonce |-> Slice(bytes, 42, 58),
                   ciphertext |-> Slice(bytes, offset, offset + cipherLen),
                   tag |-> Slice(bytes, offset + cipherLen, offset + cipherLen + 16)]
unpack_noTagRoom(buffer) ==
    LET bytes == buffer.buffer IN
    IF Len(bytes) < 68 THEN Null
    ELSE IF bytes[1] # 71 \/ bytes[2] # 72 \/ bytes[3] # 83 \/ bytes[4] # 84 THEN Null
    ELSE LET cipherLen == GetUint32BE(bytes, 6)
             offset    == 4 + 2 + 4 + 32 + 16 + 10
         IN  IF Len(bytes) - offset < cipherLen THEN Null
             ELSE [isNull |-> FALSE,
                   salt |-> Slice(bytes, 10, 42), nonce |-> Slice(bytes, 42, 58),
                   ciphertext |-> Slice(bytes, offset, offset + cipherLen),
                   tag |-> Slice(bytes, offset + cipherLen, offset + cipherLen + 16)]
unpack_magic3(buffer) ==
    LET bytes == buffer.buffer IN
    IF Len(bytes) < 68 THEN Null
    ELSE IF bytes[1] # 71 \/ bytes[2] # 72 \/ bytes[3] # 83 THEN Null
    ELSE LET cipherLen == GetUint32BE(bytes, 6)
             offset    == 4 + 2 + 4 + 32 + 16 + 10
         IN  IF Len(bytes) - offset - 16 < cipherLen THEN Null
             ELSE [isNull |-> FALSE,
                   salt |-> Slice(bytes, 10, 42), nonce |-> Slice(bytes, 42, 58),
                   ciphertext |-> Slice(bytes, offset, offset + cipherLen),
                   tag |-> Slice(bytes, offset + cipherLen, offset + cipherLen + 16)]
unpack_checkVersion(buffer) ==
    LET bytes == buffer.buffer IN
    IF Len(bytes) < 68 THEN Null
    ELSE IF bytes[1] # 71 \/ bytes[2] # 72 \/ bytes[3] # 83 \/ bytes[4] # 84 THEN Null
    ELSE LET version   == GetUint16BE(bytes, 4)
             cipherLen == GetUint32BE(bytes, 6)
             offset    == 4 + 2 + 4 + 32 + 16 + 10
         IN  IF version # VERSION \/ Len(bytes) - offset - 16 < cipherLen THEN Null
             ELSE [isNull |-> FALSE,
                   salt |-> Slice(bytes, 10, 42), nonce |-> Slice(bytes, 42, 58),
                   ciphertext |-> Slice(bytes, offset, offset + cipherLen),
                   tag |-> Slice(bytes, offset + cipherLen, offset + cipherLen + 16)]
unpack(buffer) ==
    LET bytes == buffer.buffer IN
    IF Len(bytes) < 68 THEN Null
    ELSE IF bytes[1] # 71 \/ bytes[2] # 72 \/ bytes[3] # 83 \/ bytes[4] # 84 THEN Null
    ELSE LET version   == GetUint16BE(bytes, 4)
             cipherLen == GetUint32BE(bytes, 6)
             offset    == 4 + 2 + 4 + 32 + 16 + 10
         IN  \* bytes.length < offset + cipherLen + 16
             IF Len(bytes) - offset - 16 < cipherLen THEN Null
             ELSE [isNull |-> FALSE,
                   salt |-> Slice(bytes, 10, 42), nonce |-> Slice(bytes, 42, 58),
                   ciphertext |-> Slice(bytes, offset, offset + cipherLen),
                   tag |-> Slice(bytes, offset + cipherLen, offset + cipherLen + 16)]

\* encryptMessage(password, message) with the salt and nonce that
\* getRandomValues returned: the EncryptedMessage and the cipher's record.
encryptMessage_tag12(cipher, password, message, salt, nonce) ==
    LET msgBytes        == Utf8Encode(message)
        passwordBytes   == Utf8Encode(password)
        key             == deriveKey(passwordBytes, salt)
        encryptedBuffer == AesGcmEncrypt(cipher, key, nonce, msgBytes)
        totalLen        == Len(encryptedBuffer)
        tagOffset       == totalLen - 12
        ciphertext      == Slice(encryptedBuffer, 0, tagOffset)
        tag             == Slice(encryptedBuffer, tagOffset, totalLen)
    IN  [result |-> [salt |-> salt, nonce |-> nonce, ciphertext |-> ciphertext, tag |-> tag],
         made   |-> [key |-> key, iv |-> nonce, ct |-> ciphertext, tag |-> tag,
                     pt |-> msgBytes]]
encryptMessage(cipher, password, message, salt, nonce) ==
    LET msgBytes        == Utf8Encode(message)
        passwordBytes   == Utf8Encode(password)
        key             == deriveKey(passwordBytes, salt)
        encryptedBuffer == AesGcmEncrypt(cipher, key, nonce, msgBytes)
        totalLen        == Len(encryptedBuffer)
        tagOffset       == totalLen - 16
        ciphertext      == Slice(encryptedBuffer, 0, tagOffset)
        tag             == Slice(encryptedBuffer, tagOffset, totalLen)
    IN  [result |-> [salt |-> salt, nonce |-> nonce, ciphertext |-> ciphertext, tag |-> tag],
         made   |-> [key |-> key, iv |-> nonce, ct |-> ciphertext, tag |-> tag,
                     pt |-> msgBytes]]

\* decryptMessage(password, packedBytes): the string returned or the
\* error thrown; parts is what unpack returned.
decryptMessage_noAuth(cipher, password, packedBytes) ==
    LET parts == unpack(packedBytes) IN
    IF parts.isNull
    THEN [threw |-> "Invalid Ghost Header", ret |-> <<>>, parts |-> parts]
    ELSE [threw |-> "none", parts |-> parts,
          ret |-> Utf8Decode([k \in 1..Len(parts.ciphertext) |->
                    (parts.ciphertext[k] + 256
                     - KeyStream(deriveKey(Utf8Encode(password), parts.salt),
                                 parts.nonce, k)) % 256])]
decryptMessage(cipher, password, packedBytes) ==
    LET parts == unpack(packedBytes) IN
    IF parts.isNull
    THEN [threw |-> "Invalid Ghost Header", ret |-> <<>>, parts |-> parts]
    ELSE LET passwordBytes == Utf8Encode(password)
             key           == deriveKey(passwordBytes, parts.salt)
             cipherWithTag == SetAt(SetAt(Zeros(Len(parts.ciphertext) + 16),
                                          parts.ciphertext, 0),
                                    parts.tag, Len(parts.ciphertext))
             decrypted     == AesGcmDecrypt(cipher, key, parts.nonce, cipherWithTag)
         IN  IF decrypted.ok
             THEN [threw |-> "none", ret |-> Utf8Decode(decrypted.data), parts |-> parts]
             ELSE [threw |-> "Wrong password or corrupted data.", ret |-> <<>>,
                   parts |-> parts]

(***************************************************************************)
(* State.                                                                  *)
(***************************************************************************)
VARIABLES
    imageData,   \* the ImageData: [width, height, data (4 bytes per pixel)]
    lsbCall,     \* the last codec call: its argument, the buffer before it, its outcome
    embedded,    \* <<B>> once a payload B was embedded successfully (the latest), else <<>>
    ncalls,      \* codec calls made on this image
    cipher,      \* the encryptions AES-GCM has made: [key, iv, ct, tag, pt]
    enc,         \* the encryptMessage call: password, message and its result
    packed,      \* the protocol frame in transit (a Uint8Array)
    flipped,     \* the bit of the frame that was flipped in transit, or -1
    unpacked,    \* what unpack returned for the frame
    dec,         \* the decryptMessage call: password and its outcome
    stage,       \* how far the message has travelled
    isOffline,   \* main.js: the page runs from file: or inside the native shell
    dom,         \* the loader, the two result areas and the alerts shown
    reqs,        \* the submits made, in order: each handler's position and outcome
    calls        \* concurrent encryptMessage/decryptMessage calls: their locals

lsbVars == <<imageData, lsbCall, embedded, ncalls>>
protoVars == <<cipher, enc, packed, flipped, unpacked, dec, stage>>
pageVars == <<isOffline, dom, reqs>>
vars == <<imageData, lsbCall, embedded, ncalls,
          cipher, enc, packed, flipped, unpacked, dec, stage,
          isOffline, dom, reqs, calls>>

\* Pixel contents a decoded cover image can have.
Fill(seed, n) == [k \in 1..n |-> (seed * k + (k \div 5) * 3) % 256]
FillSeeds == {37, 255}

PayloadBytes == {90, 165}
Payloads == UNION {[1..n -> PayloadBytes] : n \in 0..MaxPayload}

\* No message is travelling.
NoEnc == [password |-> <<>>, message |-> <<>>,
          result |-> [salt |-> <<>>, nonce |-> <<>>, ciphertext |-> <<>>, tag |-> <<>>]]
NoDec == [password |-> <<>>, threw |-> "none", ret |-> <<>>, parts |-> Null]
ProtoIdle ==
    /\ cipher = {}
    /\ enc = NoEnc
    /\ packed = Uint8Array(<<>>)
    /\ flipped = -1
    /\ unpacked = Null
    /\ dec = NoDec
    /\ stage = "start"

\* Submits made on the page, and engine calls running at once.
MaxSubmits == 2
MaxConc == 2

NoCall == [op |-> "none", secretData |-> <<>>, pre |-> <<>>, threw |-> "none", ret |-> <<>>,
           dataBits |-> 0]

\* The page before any submit: loader and result areas hidden, nothing shown.
\* downloadHref and revealedMessage name the submit whose result they hold.
DomStart == [loaderHidden |-> TRUE,
             encResultHidden |-> TRUE, downloadHref |-> 0,
             decResultHidden |-> TRUE, revealedMessage |-> 0,
             alerts |-> 0]
IdleReq == [form |-> "none", pc |-> "idle", server |-> "none", offline |-> FALSE,
            file |-> "none", trace |-> <<>>, failedAt |-> "none",
            unpackNull |-> FALSE, outcome |-> "pending", overlap |-> FALSE]
PageIdle ==
    /\ isOffline = FALSE
    /\ dom = DomStart
    /\ reqs = [r \in 1..MaxSubmits |-> IdleReq]

\* No engine call is running.
IdleCall == [kind |-> "none", pc |-> "idle", seq |-> 0, overlap |-> FALSE, password |-> <<>>,
             message |-> <<>>, packedBytes |-> <<>>, salt |-> <<>>, nonce |-> <<>>,
             parts |-> Null, key |-> <<>>, threw |-> "none", ret |-> <<>>,
             result |-> NoEnc.result]
NoCalls == [c \in 1..MaxConc |-> IdleCall]

InitLSB ==
    /\ \E w \in 1..MaxW, h \in 1..MaxH, seed \in FillSeeds :
          imageData = [width |-> w, height |-> h, data |-> Fill(seed, 4 * w * h)]
    /\ lsbCall = NoCall
    /\ embedded = <<>>
    /\ ncalls = 0
    /\ ProtoIdle
    /\ PageIdle
    /\ calls = NoCalls

\* GhostEngine.embedLSB(imageData, secretData)
EmbedLSB(secretData) ==
    /\ ncalls < MaxCalls
    /\ \E r \in {embedLSB(imageData, secretData)} :
        /\ imageData' = [imageData EXCEPT !.data = r.data]
        /\ lsbCall' = [op |-> "embed", secretData |-> secretData,
                       pre |-> imageData.data, threw |-> r.threw, ret |-> <<>>,
                       dataBits |-> 0]
        /\ embedded' = IF r.threw = "none" THEN <<secretData>> ELSE embedded
    /\ ncalls' = ncalls + 1
    /\ UNCHANGED protoVars
    /\ UNCHANGED <<pageVars, calls>>

\* GhostEngine.extractLSB(imageData)
ExtractLSB ==
    /\ ncalls < MaxCalls
    /\ \E r \in {extractLSB(imageData)} :
        lsbCall' = [op |-> "extract", secretData |-> <<>>,
                    pre |-> imageData.data, threw |-> r.threw, ret |-> r.ret,
                    dataBits |-> r.dataBits]
    /\ ncalls' = ncalls + 1
    /\ UNCHANGED <<imageData, embedded>>
    /\ UNCHANGED protoVars
    /\ UNCHANGED <<pageVars, calls>>

NextLSB ==
    \/ \E secretData \in Payloads : EmbedLSB(secretData)
    \/ ExtractLSB

SpecLSB == InitLSB /\ [][NextLSB]_vars

(***************************************************************************)
(* Several embedLSB calls in a row on the same image, succeeding or        *)
(* failing, and then one extractLSB.                                       *)
(***************************************************************************)
MaxEmbeds == 2

\* Images of capacity 4, 5 and 6 bytes, and payloads some of which fit.
SeqDims == {<<6, 2>>, <<7, 2>>, <<8, 2>>}
SeqPayloads == {<<>>, <<90>>, <<165, 90>>, <<90, 165, 90>>}

InitSeq ==
    /\ \E d \in SeqDims, seed \in FillSeeds :
          imageData = [width |-> d[1], height |-> d[2],
                       data |-> Fill(seed, 4 * d[1] * d[2])]
    /\ lsbCall = NoCall
    /\ embedded = <<>>
    /\ ncalls = 0
    /\ ProtoIdle
    /\ PageIdle
    /\ calls = NoCalls

\* GhostEngine.embedLSB(imageData, secretData), on the image as the calls
\* before left it.
EmbedAgain(secretData) ==
    /\ ncalls < MaxEmbeds
    /\ lsbCall.op # "extract"
    /\ \E r \in {embedLSB(imageData, secretData)} :
        /\ imageData' = [imageData EXCEPT !.data = r.data]
        /\ lsbCall' = [op |-> "embed", secretData |-> secretData,
                       pre |-> imageData.data, threw |-> r.threw, ret |-> <<>>,
                       dataBits |-> 0]
        /\ embedded' = IF r.threw = "none" THEN <<secretData>> ELSE embedded
    /\ ncalls' = ncalls + 1
    /\ UNCHANGED protoVars
    /\ UNCHANGED <<pageVars, calls>>

\* GhostEngine.extractLSB(imageData) after the embeds.
ExtractLast ==
    /\ lsbCall.op # "extract"
    /\ \E r \in {extractLSB(imageData)} :
        lsbCall' = [op |-> "extract", secretData |-> <<>>,
                    pre |-> imageData.data, threw |-> r.threw, ret |-> r.ret,
                    dataBits |-> r.dataBits]
    /\ ncalls' = ncalls + 1
    /\ UNCHANGED <<imageData, embedded>>
    /\ UNCHANGED protoVars
    /\ UNCHANGED <<pageVars, calls>>

NextSeq ==
    \/ \E secretData \in SeqPayloads : EmbedAgain(secretData)
    \/ ExtractLast

SpecSeq == InitSeq /\ [][NextSeq]_vars

(***************************************************************************)
(* extractLSB on images of any origin: the first channel LSBs hold a       *)
(* chosen length header (small, too large for the image, or with the top   *)
(* bit set) or are left as the cover has them; the rest is the cover's.    *)
(***************************************************************************)

\* The pixel buffer with the LSBs of its first channel bytes set to the
\* bits of header, as far as the buffer reaches.
WithHeader(pixels, header) ==
    [pos \in 1..Len(pixels) |->
        LET k == 3 * ((pos - 1) \div 4) + ((pos - 1) % 4)
        IN  IF (pos - 1) % 4 # 3 /\ k < 8 * Len(header)
            THEN (pixels[pos] - (pixels[pos] % 2)) + BitOf(header, k)
            ELSE pixels[pos]]

Headers ==
    {Uint32BE(n) : n \in 0..(CapacityBytes(MaxW, MaxH) + 1)}
        \cup {<<>>, <<0, 1, 0, 0>>, <<127, 255, 255, 255>>, <<128, 0, 0, 0>>,
               <<128, 0, 0, 1>>, <<255, 255, 255, 255>>}

InitExtract ==
    /\ \E w \in 1..MaxW, h \in 1..MaxH, seed \in FillSeeds, header \in Headers :
          imageData = [width |-> w, height |-> h,
                       data |-> WithHeader(Fill(seed, 4 * w * h), header)]
    /\ lsbCall = NoCall
    /\ embedded = <<>>
    /\ ncalls = 0
    /\ ProtoIdle
    /\ PageIdle
    /\ calls = NoCalls

\* The number of R/G/B channel bytes of the image.
Channels == 3 * (Len(imageData.data) \div 4)

\* The byte spelled, most significant bit first, by the LSBs of the eight
\* channel bytes from channel k on.
LSBByte(k) ==
    128 * (imageData.data[ChannelPos(k)] % 2) + 64 * (imageData.data[ChannelPos(k + 1)] % 2)
    + 32 * (imageData.data[ChannelPos(k + 2)] % 2) + 16 * (imageData.data[ChannelPos(k + 3)] % 2)
    + 8 * (imageData.data[ChannelPos(k + 4)] % 2) + 4 * (imageData.data[ChannelPos(k + 5)] % 2)
    + 2 * (imageData.data[ChannelPos(k + 6)] % 2) + (imageData.data[ChannelPos(k + 7)] % 2)

\* The first 32 channel LSBs as an unsigned big-endian value: its top bit,
\* and the value of the other 31 bits.
TopBitSet == LSBByte(0) >= 128
Low31 == (LSBByte(0) % 128) * 16777216 + LSBByte(8) * 65536 + LSBByte(16) * 256 + LSBByte(24)

\* The number of leading channel bytes whose LSBs a call of extractLSB on
\* the image is to depend on: the 32 of the length header and the 8 * L of
\* the declared length L, as far as the image has them.
PayloadChannels ==
    IF Channels < 32 THEN Channels
    ELSE IF TopBitSet \/ Low31 > CapacityBytes(imageData.width, imageData.height)
         THEN Channels
    ELSE IF 32 + 8 * Low31 > Channels THEN Channels
    ELSE 32 + 8 * Low31

\* Another image of the same dimensions with the same leading channel
\* LSBs: the upper seven bits of every byte, the alpha bytes, or the
\* channel bytes after the last payload bit are inverted, or all of these.
VariantKinds == {"upper", "alpha", "tail", "all"}
Variant(pixels, keep, kind) ==
    [pos \in 1..Len(pixels) |->
        LET k == 3 * ((pos - 1) \div 4) + ((pos - 1) % 4)
        IN  IF (pos - 1) % 4 = 3
            THEN IF kind \in {"alpha", "all"} THEN 255 - pixels[pos]
                 ELSE IF kind = "upper" THEN (254 - (pixels[pos] - (pixels[pos] % 2))) + (pixels[pos] % 2)
                 ELSE pixels[pos]
            ELSE IF k >= keep /\ kind \in {"tail", "all"} THEN 255 - pixels[pos]
            ELSE IF kind \in {"upper", "all"}
                 THEN (254 - (pixels[pos] - (pixels[pos] % 2))) + (pixels[pos] % 2)
            ELSE pixels[pos]]

\* GhostEngine.extractLSB(imageData) on such a variant of the image of the
\* call before.
ExtractVariant(kind) ==
    /\ ncalls < MaxCalls
    /\ lsbCall.op = "extract"
    /\ \E v \in {Variant(imageData.data, PayloadChannels, kind)} :
        /\ imageData' = [imageData EXCEPT !.data = v]
        /\ \E r \in {extractLSB([imageData EXCEPT !.data = v])} :
              lsbCall' = [op |-> "extract", secretData |-> <<>>,
                          pre |-> v, threw |-> r.threw, ret |-> r.ret,
                          dataBits |-> r.dataBits]
    /\ ncalls' = ncalls + 1
    /\ UNCHANGED embedded
    /\ UNCHANGED protoVars
    /\ UNCHANGED <<pageVars, calls>>

NextExtract ==
    \/ ExtractLSB
    \/ \E kind \in VariantKinds : ExtractVariant(kind)

SpecExtract == InitExtract /\ [][NextExtract]_vars

(***************************************************************************)
(* The message path without an image: encryptMessage, pack, a frame that   *)
(* may be altered in transit, unpack and decryptMessage.                   *)
(***************************************************************************)
MaxMsgLen == 2

Chars == {65, 233, BOM}
Strings(n) == UNION {[1..k -> Chars] : k \in 0..n}
Messages == Strings(MaxMsgLen)
Passwords == {<<112, 119>>, <<112, 87, 233>>}

\* Values the two window.crypto.getRandomValues calls can return: a
\* 32-byte salt and a 16-byte nonce.
Randoms ==
    {[salt  |-> [k \in 1..32 |-> (s * k) % 256],
      nonce |-> [k \in 1..16 |-> ((s * k) + 129) % 256]] : s \in {3, 5}}

NoImage == [width |-> 1, height |-> 1, data |-> <<0, 0, 0, 255>>]

InitProto ==
    /\ imageData = NoImage
    /\ lsbCall = NoCall
    /\ embedded = <<>>
    /\ ncalls = 0
    /\ ProtoIdle
    /\ PageIdle
    /\ calls = NoCalls

\* GhostEngine.encryptMessage(password, message)
EncryptMessage(password, message, salt, nonce) ==
    /\ stage = "start"
    /\ \E r \in {encryptMessage(cipher, password, message, salt, nonce)} :
        /\ enc' = [password |-> password, message |-> message, result |-> r.result]
        /\ cipher' = cipher \cup {r.made}
    /\ stage' = "encrypted"
    /\ UNCHANGED <<packed, flipped, unpacked, dec>>
    /\ UNCHANGED lsbVars
    /\ UNCHANGED <<pageVars, calls>>

\* GhostEngine.pack(encrypted)
Pack ==
    /\ stage = "encrypted"
    /\ packed' = pack(enc.result)
    /\ stage' = "packed"
    /\ UNCHANGED <<cipher, enc, flipped, unpacked, dec>>
    /\ UNCHANGED lsbVars
    /\ UNCHANGED <<pageVars, calls>>

\* One bit of the frame (bit number pos, counted from the first byte's
\* most significant bit) is inverted between hide and reveal.
FlipBit(pos) ==
    /\ stage = "packed"
    /\ pos \in 0..(8 * Len(packed.buffer) - 1)
    /\ packed' = [packed EXCEPT !.buffer[(pos \div 8) + 1] =
                     LET w == Pow2(7 - (pos % 8))
                     IN  IF (@ \div w) % 2 = 1 THEN @ - w ELSE @ + w]
    /\ flipped' = pos
    /\ stage' = "tampered"
    /\ UNCHANGED <<cipher, enc, unpacked, dec>>
    /\ UNCHANGED lsbVars
    /\ UNCHANGED <<pageVars, calls>>

\* GhostEngine.unpack(buffer), on the frame pack made or on a buffer that
\* was received.
Unpack ==
    /\ stage \in {"packed", "received"}
    /\ unpacked' = unpack(packed)
    /\ stage' = "unpacked"
    /\ UNCHANGED <<cipher, enc, packed, flipped, dec>>
    /\ UNCHANGED lsbVars
    /\ UNCHANGED <<pageVars, calls>>

\* GhostEngine.decryptMessage(password, packedBytes)
DecryptMessage(password) ==
    /\ stage \in {"packed", "tampered"}
    /\ \E r \in {decryptMessage(cipher, password, packed)} :
        dec' = [password |-> password, threw |-> r.threw, ret |-> r.ret, parts |-> r.parts]
    /\ stage' = "decrypted"
    /\ UNCHANGED <<cipher, enc, packed, flipped, unpacked>>
    /\ UNCHANGED lsbVars
    /\ UNCHANGED <<pageVars, calls>>

NextProto ==
    \/ \E password \in Passwords, message \in Messages, rnd \in Randoms :
          EncryptMessage(password, message, rnd.salt, rnd.nonce)
    \/ Pack
    \/ \E pos \in 0..(8 * (68 + 4 * MaxMsgLen + 16) - 1) : FlipBit(pos)
    \/ Unpack
    \/ \E password \in Passwords : DecryptMessage(password)

SpecProto == InitProto /\ [][NextProto]_vars

(***************************************************************************)
(* unpack on the byte buffers a caller can hand it: frames and non-frames  *)
(* of every length around the smallest frame, with a right or wrong magic, *)
(* any version, a declared ciphertext length that fits, does not fit or    *)
(* has its top bit set, and zero or non-zero reserved bytes.  The buffers  *)
(* are typed arrays that cover their whole ArrayBuffer.                    *)
(***************************************************************************)
MaxCipherLen == 2

MagicBytes ==
    {MAGIC, <<70, 72, 83, 84>>, <<71, 104, 83, 84>>, <<71, 72, 0, 84>>, <<71, 72, 83, 85>>}
VersionBytes == {<<0, 1>>, <<0, 2>>, <<255, 255>>}
LengthBytes ==
    {Uint32BE(n) : n \in 0..(MaxCipherLen + 1)}
        \cup {<<0, 0, 1, 0>>, <<128, 0, 0, 0>>, <<255, 255, 255, 255>>}
ReservedBytes == {Zeros(10), [k \in 1..10 |-> 7 * k]}

\* The first len bytes of: magic, version, length, salt and nonce, the
\* reserved bytes, and what follows the header.
BufferOf(len, magic, version, length, reserved) ==
    Slice(magic \o version \o length \o Fill(37, 48) \o reserved
              \o Fill(41, MaxCipherLen + 16 + 1), 0, len)

InitUnpack ==
    /\ imageData = NoImage
    /\ lsbCall = NoCall
    /\ embedded = <<>>
    /\ ncalls = 0
    /\ cipher = {}
    /\ enc = NoEnc
    /\ \E len \in 0..(68 + MaxCipherLen + 16 + 1), magic \in MagicBytes,
          version \in {<<0, 1>>, <<0, 2>>}, length \in LengthBytes :
          packed = Uint8Array(BufferOf(len, magic, version, length, Zeros(10)))
    /\ flipped = -1
    /\ unpacked = Null
    /\ dec = NoDec
    /\ stage = "received"
    /\ PageIdle
    /\ calls = NoCalls

\* GhostEngine.unpack(buffer) on a buffer equal to the one unpacked before
\* except in its version (bytes 4-5) and reserved (bytes 58-67) fields.
UnpackVariant(version, reserved) ==
    /\ stage = "unpacked"
    /\ \E b \in {SetAt(SetAt(packed.buffer, version, 4), reserved, 58)} :
        /\ b # packed.buffer
        /\ packed' = Uint8Array(b)
        /\ unpacked' = unpack(Uint8Array(b))
    /\ stage' = "variant"
    /\ UNCHANGED <<cipher, enc, flipped, dec>>
    /\ UNCHANGED lsbVars
    /\ UNCHANGED <<pageVars, calls>>

NextUnpack ==
    \/ Unpack
    \/ \E version \in VersionBytes, reserved \in ReservedBytes :
          UnpackVariant(version, reserved)

SpecUnpack == InitUnpack /\ [][NextUnpack]_vars

(***************************************************************************)
(* unpack on typed-array views: the argument shows length bytes from       *)
(* byteOffset of an ArrayBuffer that may hold other bytes before and       *)
(* after them.                                                             *)
(***************************************************************************)
MaxSlack == 1

InitView ==
    /\ imageData = NoImage
    /\ lsbCall = NoCall
    /\ embedded = <<>>
    /\ ncalls = 0
    /\ cipher = {}
    /\ enc = NoEnc
    /\ \E len \in 0..(68 + MaxCipherLen + 16 + 1), magic \in {MAGIC, <<71, 72, 83, 85>>},
          length \in LengthBytes, before \in 0..MaxSlack, after \in 0..MaxSlack :
          packed = [buffer |-> Fill(41, before)
                                 \o BufferOf(len, magic, <<0, 1>>, length, Zeros(10))
                                 \o Fill(43, after),
                    byteOffset |-> before, length |-> len]
    /\ flipped = -1
    /\ unpacked = Null
    /\ dec = NoDec
    /\ stage = "received"
    /\ PageIdle
    /\ calls = NoCalls

\* GhostEngine.unpack(buffer) on a copy of the bytes the view shows
\* (view.slice()), after unpack on the view itself.
UnpackCopy ==
    /\ stage = "unpacked"
    /\ packed' = Uint8Array(Bytes(packed))
    /\ unpacked' = unpack(Uint8Array(Bytes(packed)))
    /\ stage' = "copied"
    /\ UNCHANGED <<cipher, enc, flipped, dec>>
    /\ UNCHANGED lsbVars
    /\ UNCHANGED <<pageVars, calls>>

NextView ==
    \/ Unpack
    \/ UnpackCopy

SpecView == InitView /\ [][NextView]_vars

\* C26: unpack reads only the bytes it was given: for a view on part of a
\* larger buffer, unpack(view) equals unpack(copy of the view's bytes).
C26_ViewEqualsCopy ==
    [][stage = "unpacked" /\ stage' = "copied" => unpacked' = unpacked]_vars

\* The same for the typed arrays that cover their whole buffer.
C26_WholeArrayEqualsCopy ==
    [][stage = "unpacked" /\ stage' = "copied"
          /\ packed.byteOffset = 0 /\ packed.length = Len(packed.buffer)
        => unpacked' = unpacked]_vars

\* A frame seen through a view at offset 1 is rejected, its copy accepted.
C26_WitnessRejected ==
    /\ stage = "unpacked" /\ unpacked.isNull
    /\ packed.byteOffset = 1 /\ packed.length = 68 + 1 + 16
    /\ SubSeq(Bytes(packed), 1, 10) = <<71, 72, 83, 84, 0, 1, 0, 0, 0, 1>>

(***************************************************************************)
(* Properties of unpack (checked under SpecUnpack).                        *)
(***************************************************************************)

\* unpack has returned for the buffer in packed.
Unpacked == stage \in {"unpacked", "variant"}

\* The buffer is too short to hold a header and a tag.
TooShort == Len(Bytes(packed)) < 68 + 16

\* The first four bytes are not G, H, S, T.
MagicMismatch ==
    Len(Bytes(packed)) < 4 \/ SubSeq(Bytes(packed), 1, 4) # <<71, 72, 83, 84>>

\* The buffer is shorter than 68 + declared ciphertext length + 16, the
\* declared length being the big-endian unsigned value of bytes 6-9.
Incomplete ==
    LET b == Bytes(packed) IN
    /\ Len(b) >= 10
    /\ \/ b[7] >= 128
       \/ Len(b) - 68 - 16 < b[7] * 16777216 + b[8] * 65536 + b[9] * 256 + b[10]

\* C12: unpack returns null exactly when the buffer is shorter than
\* 68 + 16 bytes, or its magic is not G,H,S,T, or it is shorter than
\* 68 + declared length + 16; otherwise it returns the four fields sliced
\* at the fixed offsets.  It never throws.
C12_UnpackRejects ==
    Unpacked =>
        LET b == Bytes(packed) IN
        /\ unpacked.isNull <=> (TooShort \/ MagicMismatch \/ Incomplete)
        /\ unpacked.isNull => unpacked = Null
        /\ ~unpacked.isNull =>
              LET n == b[10] + 256 * b[9] IN
              /\ unpacked.salt = SubSeq(b, 11, 42)
              /\ unpacked.nonce = SubSeq(b, 43, 58)
              /\ unpacked.ciphertext = SubSeq(b, 69, 68 + n)
              /\ unpacked.tag = SubSeq(b, 68 + n + 1, 68 + n + 16)

\* A buffer of 68 to 83 bytes with the right magic and declared length 0
\* is rejected (by the completeness test, not by the header-size test).
C12_Witness ==
    /\ stage = "unpacked" /\ unpacked.isNull
    /\ Len(packed.buffer) = 83 /\ ~MagicMismatch
    /\ SubSeq(packed.buffer, 7, 10) = <<0, 0, 0, 0>>

\* A frame followed by a spare byte is accepted.
C12_WitnessAccepted ==
    /\ stage = "unpacked" /\ ~unpacked.isNull
    /\ Len(unpacked.ciphertext) = 1 /\ Len(packed.buffer) = 68 + 1 + 16 + 1

\* Rejections for a wrong magic alone and for a declared length with the
\* top bit set.
C12_WitnessMagic ==
    stage = "unpacked" /\ unpacked.isNull /\ ~TooShort /\ MagicMismatch /\ ~Incomplete
C12_WitnessTopBit ==
    /\ stage = "unpacked" /\ unpacked.isNull /\ ~TooShort /\ ~MagicMismatch
    /\ packed.buffer[7] = 128

C14_VersionReservedIgnored ==
    [][stage = "unpacked" /\ stage' = "variant" => unpacked' = unpacked]_vars

\* An accepted buffer with version 65535 and non-zero reserved bytes.
C14_Witness ==
    /\ stage = "variant" /\ ~unpacked.isNull
    /\ SubSeq(packed.buffer, 5, 6) = <<255, 255>>
    /\ packed.buffer[59] = 7
    /\ Len(unpacked.ciphertext) > 0

\* A rejected buffer in its variant form.
C14_WitnessNull ==
    stage = "variant" /\ unpacked.isNull /\ Len(packed.buffer) >= 68

(***************************************************************************)
(* Properties of the message path (checked under SpecProto).               *)
(***************************************************************************)

\* decryptMessage was called on the frame exactly as pack produced it.
DecryptedIntact == stage = "decrypted" /\ flipped = -1

\* C5: crypto/protocol round-trip: decryptMessage(P, pack(encryptMessage(P, M)))
\* returns M, for every password P and every plaintext M.
C5_RoundTrip ==
    DecryptedIntact /\ dec.password = enc.password
        => dec.threw = "none" /\ dec.ret = enc.message

\* The round-trip for the plaintexts that do not begin with U+FEFF.
C5_RoundTripNoBOM ==
    DecryptedIntact /\ dec.password = enc.password
      /\ (enc.message = <<>> \/ Head(enc.message) # BOM)
        => dec.threw = "none" /\ dec.ret = enc.message

\* A plaintext beginning with U+FEFF comes back without that character.
C5_BOMDropped ==
    DecryptedIntact /\ dec.password = enc.password
      /\ enc.message # <<>> /\ Head(enc.message) = BOM
        => dec.threw = "none" /\ dec.ret = Tail(enc.message)

FlippedInSecret ==
    /\ flipped >= 0
    /\ \/ flipped \div 8 \in 10..57
       \/ flipped \div 8 >= 68

\* C8: tamper sensitivity: after a single-bit flip in salt, nonce,
\* ciphertext or tag, decryptMessage with the original password throws
\* the authentication error and returns no plaintext.
C8_TamperDetected ==
    stage = "decrypted" /\ FlippedInSecret /\ dec.password = enc.password
        => dec.threw = "Wrong password or corrupted data." /\ dec.ret = <<>>

\* A flip in the last byte of the salt of a non-empty message's frame,
\* decrypted with the original password.
C8_Witness ==
    /\ stage = "decrypted" /\ flipped \div 8 = 41 /\ dec.password = enc.password
    /\ enc.message # <<>>
    /\ dec.parts.salt # enc.result.salt
    /\ dec.threw = "Wrong password or corrupted data."

\* Flips in each of the four fields are detected.
C8_WitnessNonce == stage = "decrypted" /\ flipped \div 8 = 57 /\ dec.threw # "none"
C8_WitnessCiphertext ==
    stage = "decrypted" /\ flipped \div 8 = 68 /\ Len(enc.result.ciphertext) > 0
      /\ dec.threw # "none"
C8_WitnessTag ==
    stage = "decrypted" /\ flipped \div 8 = Len(packed.buffer) - 1 /\ dec.threw # "none"

\* pack has produced the frame of the EncryptedMessage enc.result.
Packed == stage \in {"packed", "unpacked"} \/ DecryptedIntact

\* C9: wire layout of pack: magic, version 1 and length N big-endian, salt,
\* nonce, ten zero bytes, ciphertext, tag, at the fixed offsets.
C9_WireLayout ==
    Packed =>
        LET m == enc.result
            n == Len(m.ciphertext)
            b == Bytes(packed)
        IN  /\ Len(m.salt) = 32 /\ Len(m.nonce) = 16 /\ Len(m.tag) = 16
            /\ Len(b) = 68 + n + 16
            /\ SubSeq(b, 1, 4) = <<71, 72, 83, 84>>
            /\ SubSeq(b, 5, 6) = <<0, 1>>
            /\ b[7] * 16777216 + b[8] * 65536 + b[9] * 256 + b[10] = n
            /\ SubSeq(b, 11, 42) = m.salt
            /\ SubSeq(b, 43, 58) = m.nonce
            /\ \A k \in 59..68 : b[k] = 0
            /\ SubSeq(b, 69, 68 + n) = m.ciphertext
            /\ SubSeq(b, 68 + n + 1, 68 + n + 16) = m.tag

\* A packed frame with a ciphertext of several different bytes.
C9_Witness ==
    /\ stage = "packed"
    /\ Len(enc.result.ciphertext) >= 2
    /\ enc.result.ciphertext[1] # enc.result.ciphertext[2]
    /\ packed.buffer[10] = Len(enc.result.ciphertext)

\* C10: unpack inverts pack: unpack(pack(m)) is not null and its salt,
\* nonce, ciphertext and tag equal those of m.
C10_UnpackInvertsPack ==
    stage = "unpacked" =>
        /\ ~unpacked.isNull
        /\ unpacked.salt = enc.result.salt
        /\ unpacked.nonce = enc.result.nonce
        /\ unpacked.ciphertext = enc.result.ciphertext
        /\ unpacked.tag = enc.result.tag

\* unpack has run on the frame of a non-empty ciphertext.
C10_Witness ==
    /\ stage = "unpacked" /\ ~unpacked.isNull
    /\ Len(unpacked.ciphertext) > 0
    /\ Len(unpacked.salt) = 32 /\ Len(unpacked.nonce) = 16 /\ Len(unpacked.tag) = 16

\* The number of bytes of the UTF-8 form of a string: one to four per
\* character, by the size of its code point.
RECURSIVE Utf8Len(_)
Utf8Len(str) ==
    IF str = <<>> THEN 0
    ELSE (IF Head(str) < 128 THEN 1 ELSE IF Head(str) < 2048 THEN 2
          ELSE IF Head(str) < 65536 THEN 3 ELSE 4) + Utf8Len(Tail(str))

\* C11: frame size: the ciphertext of encryptMessage has the UTF-8 byte
\* length of M and the tag has 16 bytes, so the packed frame is
\* 68 + utf8len(M) + 16 bytes long and its length field (bytes 6-9) holds
\* utf8len(M).
C11_FrameSize ==
    Packed =>
        LET n == Utf8Len(enc.message)
            b == Bytes(packed)
        IN  /\ Len(enc.result.ciphertext) = n
            /\ Len(enc.result.tag) = 16
            /\ Len(b) = 68 + n + 16
            /\ SubSeq(b, 7, 10) = <<0, 0, 0, n>>

\* The frame of a message whose UTF-8 form is longer than its character
\* count (a two-byte and a three-byte character).
C11_Witness ==
    /\ stage = "packed"
    /\ enc.message = <<233, BOM>>
    /\ Len(enc.result.ciphertext) = 5
    /\ Len(packed.buffer) = 89

\* C16: the frame adds 80 bytes to the ciphertext (a 64-byte header and a
\* 16-byte tag): for a ciphertext of N bytes the packed frame has N + 80.
C16_Overhead80 ==
    Packed => Len(Bytes(packed)) = Len(enc.result.ciphertext) + 80

\* What pack does: the frame has N + 84 bytes (68-byte header, 16-byte tag).
C16_Overhead84 ==
    Packed => Len(Bytes(packed)) = Len(enc.result.ciphertext) + 68 + 16

(***************************************************************************)
(* The offline pipeline of main.js: handleOfflineEncrypt hides a message   *)
(* in the image, handleOfflineDecrypt reveals it.  The exported PNG is     *)
(* taken to give back the pixel buffer it was made from.                   *)
(***************************************************************************)

\* Cover images around the size one protocol frame needs: capacities
\* floor(W*H*3/8) of 84, 88, 90 and 93 bytes.
PipeDims == {<<15, 15>>, <<47, 5>>, <<16, 15>>, <<25, 10>>}

InitPipe ==
    /\ \E d \in PipeDims :
          imageData = [width |-> d[1], height |-> d[2], data |-> Fill(37, 4 * d[1] * d[2])]
    /\ lsbCall = NoCall
    /\ embedded = <<>>
    /\ ncalls = 0
    /\ ProtoIdle
    /\ PageIdle
    /\ calls = NoCalls

\* handleOfflineEncrypt: encryptMessage, pack, embedLSB; an exception
\* ends the handler in its catch block.
HandleOfflineEncrypt(password, message, salt, nonce) ==
    /\ stage = "start"
    /\ \E r \in {encryptMessage(cipher, password, message, salt, nonce)} :
        /\ enc' = [password |-> password, message |-> message, result |-> r.result]
        /\ cipher' = cipher \cup {r.made}
        /\ packed' = pack(r.result)
        /\ \E e \in {embedLSB(imageData, Bytes(pack(r.result)))} :
            /\ imageData' = [imageData EXCEPT !.data = e.data]
            /\ lsbCall' = [op |-> "embed", secretData |-> Bytes(pack(r.result)),
                           pre |-> imageData.data, threw |-> e.threw, ret |-> <<>>,
                           dataBits |-> 0]
            /\ embedded' = IF e.threw = "none" THEN <<Bytes(pack(r.result))>> ELSE embedded
            /\ stage' = IF e.threw = "none" THEN "hidden" ELSE "hideFailed"
    /\ UNCHANGED <<flipped, unpacked, dec, ncalls>>
    /\ UNCHANGED <<pageVars, calls>>

\* handleOfflineDecrypt: extractLSB, then decryptMessage on the bytes it
\* returned; an exception of either ends the handler in its catch block.
HandleOfflineDecrypt(password) ==
    /\ stage \in {"start", "hidden"}
    /\ \E x \in {extractLSB(imageData)} :
        /\ lsbCall' = [op |-> "extract", secretData |-> <<>>,
                       pre |-> imageData.data, threw |-> x.threw, ret |-> x.ret,
                       dataBits |-> x.dataBits]
        /\ IF x.threw # "none"
           THEN dec' = [password |-> password, threw |-> x.threw, ret |-> <<>>,
                        parts |-> Null]
           ELSE \E r \in {decryptMessage(cipher, password, Uint8Array(x.ret))} :
                  dec' = [password |-> password, threw |-> r.threw, ret |-> r.ret,
                          parts |-> r.parts]
    /\ stage' = IF stage = "hidden" THEN "revealed" ELSE "revealedNothing"
    /\ UNCHANGED <<imageData, embedded, ncalls, cipher, enc, packed, flipped, unpacked>>
    /\ UNCHANGED <<pageVars, calls>>

NextPipe ==
    \/ \E password \in Passwords, message \in Messages, rnd \in Randoms :
          HandleOfflineEncrypt(password, message, rnd.salt, rnd.nonce)
    \/ \E password \in Passwords : HandleOfflineDecrypt(password)

SpecPipe == InitPipe /\ [][NextPipe]_vars

(***************************************************************************)
(* main.js: the submit handlers of the two forms.  Each submit runs an     *)
(* async handler; the handlers of several submits interleave at their      *)
(* await points and share the loader, the result areas and the alerts.     *)
(***************************************************************************)
Forms == {"enc", "dec"}
Files == {"image", "broken"}       \* a file the browser can decode, or not
Bodies == {"object", "null", "notJson"}

\* The steps of the two pipelines, in the order the handlers call them.
PipelineOrder(form) ==
    IF form = "enc" THEN <<"encrypt", "pack", "embed", "export", "display">>
                    ELSE <<"extract", "unpack", "derive", "decrypt", "display">>

Submitted == {r \in 1..MaxSubmits : reqs[r].pc # "idle"}
InFlight == {r \in 1..MaxSubmits : reqs[r].pc \notin {"idle", "done"}}

\* showEncSuccess(data, resultArea) for the result of submit r
showEncSuccess(d, r) ==
    [d EXCEPT !.downloadHref = r, !.encResultHidden = FALSE, !.loaderHidden = TRUE]

\* showDecSuccess(message, resultArea) for the result of submit r
showDecSuccess(d, r) ==
    [d EXCEPT !.revealedMessage = r, !.decResultHidden = FALSE, !.loaderHidden = TRUE]

showSuccess(d, r, form) ==
    IF form = "enc" THEN showEncSuccess(d, r) ELSE showDecSuccess(d, r)

\* alert(...); loader.classList.add('hidden')
AlertAndHide(d) == [d EXCEPT !.alerts = @ + 1, !.loaderHidden = TRUE]

\* The catch block of handleOfflineEncrypt / handleOfflineDecrypt.
CatchOffline(req, step) ==
    [req EXCEPT !.pc = "done", !.failedAt = step, !.outcome = "offlineError"]

\* handleOfflineEncrypt / handleOfflineDecrypt up to their first await:
\* encryptMessage is called, or getImageData.
StartOffline(req) ==
    IF req.form = "enc"
    THEN [req EXCEPT !.offline = TRUE, !.pc = "encrypt", !.trace = <<"encrypt">>]
    ELSE [req EXCEPT !.offline = TRUE, !.pc = "image"]

\* decryptMessage after unpack returned: "Invalid Ghost Header" is thrown
\* for null, else deriveKey is called.
AfterUnpack_noNullTest(req, partsNull) ==
    [req EXCEPT !.unpackNull = partsNull, !.pc = "derive",
                !.trace = req.trace \o <<"unpack", "derive">>]

AfterUnpack(req, partsNull) ==
    IF partsNull
    THEN [CatchOffline(req, "unpack") EXCEPT !.unpackNull = TRUE,
                                              !.trace = Append(req.trace, "unpack")]
    ELSE [req EXCEPT !.pc = "derive", !.trace = req.trace \o <<"unpack", "derive">>]

InitPage ==
    /\ imageData = NoImage
    /\ lsbCall = NoCall
    /\ embedded = <<>>
    /\ ncalls = 0
    /\ ProtoIdle
    /\ isOffline \in BOOLEAN
    /\ dom = DomStart
    /\ reqs = [r \in 1..MaxSubmits |-> IdleReq]
    /\ calls = NoCalls

\* A submit event of a form: the handler runs to its first await.
Submit(form, file) ==
    /\ Cardinality(Submitted) < MaxSubmits
    /\ LET r == Cardinality(Submitted) + 1
           req == [IdleReq EXCEPT !.form = form, !.file = file,
                                  !.overlap = InFlight # {}]
       IN  /\ dom' = [dom EXCEPT !.loaderHidden = FALSE]
           /\ reqs' = [reqs EXCEPT ![r] = IF isOffline THEN StartOffline(req)
                                          ELSE [req EXCEPT !.pc = "fetch"]]
    /\ UNCHANGED <<isOffline, calls>>
    /\ UNCHANGED <<lsbVars, protoVars>>

\* await fetch(...): the promise resolves with a response or rejects.
FetchSettles(r, reached) ==
    /\ reqs[r].pc = "fetch"
    /\ reqs' = [reqs EXCEPT ![r] =
                  IF reached THEN [@ EXCEPT !.server = "response", !.pc = "json"]
                  ELSE StartOffline([@ EXCEPT !.server = "unreachable"])]
    /\ UNCHANGED <<isOffline, dom, calls>>
    /\ UNCHANGED <<lsbVars, protoVars>>

\* await response.json(), then the rest of the try block: a body that is
\* not JSON rejects, and the body null makes data.download_url, data.message
\* and data.error throw; both end in the catch block.
JsonSettles(r, body, ok) ==
    /\ reqs[r].pc = "json"
    /\ IF body # "object"
       THEN /\ reqs' = [reqs EXCEPT ![r] = StartOffline(@)]
            /\ dom' = dom
       ELSE IF ok
       THEN /\ reqs' = [reqs EXCEPT ![r] = [@ EXCEPT !.pc = "done",
                                                     !.outcome = "serverResult"]]
            /\ dom' = showSuccess(dom, r, reqs[r].form)
       ELSE /\ reqs' = [reqs EXCEPT ![r] = [@ EXCEPT !.pc = "done",
                                                     !.outcome = "serverError"]]
            /\ dom' = AlertAndHide(dom)
    /\ UNCHANGED <<isOffline, calls>>
    /\ UNCHANGED <<lsbVars, protoVars>>

\* await GhostEngine.encryptMessage(...) settles; then pack, and
\* getImageData is called.
EncryptSettles(r, ok) ==
    /\ reqs[r].pc = "encrypt"
    /\ IF ok
       THEN /\ reqs' = [reqs EXCEPT ![r] = [@ EXCEPT !.pc = "image",
                                                     !.trace = Append(@, "pack")]]
            /\ dom' = dom
       ELSE /\ reqs' = [reqs EXCEPT ![r] = CatchOffline(@, "encrypt")]
            /\ dom' = AlertAndHide(dom)
    /\ UNCHANGED <<isOffline, calls>>
    /\ UNCHANGED <<lsbVars, protoVars>>

\* await getImageData(file) resolves: img.onload ran.  Nothing settles the
\* promise for a file the browser cannot decode.  Then embedLSB and
\* canvas.toBlob, or extractLSB and decryptMessage up to its first await.
ImageLoads(r, codecOk, partsNull) ==
    /\ reqs[r].pc = "image"
    /\ reqs[r].file = "image"
    /\ LET req == reqs[r]
           ran == [req EXCEPT !.trace = Append(@, IF req.form = "enc" THEN "embed"
                                                  ELSE "extract")]
           next == IF ~codecOk THEN CatchOffline(ran, ran.trace[Len(ran.trace)])
                   ELSE IF req.form = "enc"
                   THEN [ran EXCEPT !.pc = "blob", !.trace = Append(@, "export")]
                   ELSE AfterUnpack(ran, partsNull)
       IN  /\ reqs' = [reqs EXCEPT ![r] = next]
           /\ dom' = IF next.pc = "done" THEN AlertAndHide(dom) ELSE dom
    /\ UNCHANGED <<isOffline, calls>>
    /\ UNCHANGED <<lsbVars, protoVars>>

\* The toBlob callback runs: URL.createObjectURL throws for a null blob,
\* else showEncSuccess.
BlobSettles(r, ok) ==
    /\ reqs[r].pc = "blob"
    /\ IF ok
       THEN /\ reqs' = [reqs EXCEPT ![r] = [@ EXCEPT !.pc = "done",
                                                     !.trace = Append(@, "display"),
                                                     !.outcome = "offlineResult"]]
            /\ dom' = showEncSuccess(dom, r)
       ELSE /\ reqs' = [reqs EXCEPT ![r] = CatchOffline(@, "export")]
            /\ dom' = AlertAndHide(dom)
    /\ UNCHANGED <<isOffline, calls>>
    /\ UNCHANGED <<lsbVars, protoVars>>

\* decryptMessage: await this.deriveKey(...) settles, crypto.subtle.decrypt
\* is called.
DeriveSettles(r) ==
    /\ reqs[r].pc = "derive"
    /\ reqs' = [reqs EXCEPT ![r] = [@ EXCEPT !.pc = "decrypt",
                                             !.trace = Append(@, "decrypt")]]
    /\ UNCHANGED <<isOffline, dom, calls>>
    /\ UNCHANGED <<lsbVars, protoVars>>

\* decryptMessage: await crypto.subtle.decrypt(...) settles; then
\* showDecSuccess, or the catch block.
DecryptSettles(r, ok) ==
    /\ reqs[r].pc = "decrypt"
    /\ IF ok
       THEN /\ reqs' = [reqs EXCEPT ![r] = [@ EXCEPT !.pc = "done",
                                                     !.trace = Append(@, "display"),
                                                     !.outcome = "offlineResult"]]
            /\ dom' = showDecSuccess(dom, r)
       ELSE /\ reqs' = [reqs EXCEPT ![r] = CatchOffline(@, "decrypt")]
            /\ dom' = AlertAndHide(dom)
    /\ UNCHANGED <<isOffline, calls>>
    /\ UNCHANGED <<lsbVars, protoVars>>

\* The continuation of handler r that the event loop runs once the promise
\* it awaits has settled.
Continues(r) ==
    \/ \E reached \in BOOLEAN : FetchSettles(r, reached)
    \/ \E body \in Bodies, ok \in BOOLEAN : JsonSettles(r, body, ok)
    \/ \E ok \in BOOLEAN : EncryptSettles(r, ok)
    \/ \E codecOk \in BOOLEAN, partsNull \in BOOLEAN : ImageLoads(r, codecOk, partsNull)
    \/ \E ok \in BOOLEAN : BlobSettles(r, ok)
    \/ DeriveSettles(r)
    \/ \E ok \in BOOLEAN : DecryptSettles(r, ok)

Settles == \E r \in 1..MaxSubmits : Continues(r)

NextPage ==
    \/ \E form \in Forms, file \in Files : Submit(form, file)
    \/ Settles

\* Every promise that settles has its continuation run.
SpecPage == InitPage /\ [][NextPage]_vars /\ WF_vars(Settles)

(***************************************************************************)
(* Properties of the pipeline (checked under SpecPipe).                    *)
(***************************************************************************)
Capacity == (imageData.width * imageData.height * 3) \div 8
MsgBytes == Len(Utf8Encode(enc.message))
HideDone == stage \in {"hidden", "hideFailed", "revealed"}

C6_HideAsStated == HideDone /\ MsgBytes <= Capacity - 72 => stage # "hideFailed"

C6_WitnessTooLarge ==
    stage = "hideFailed" /\ MsgBytes <= Capacity - 72 /\ MsgBytes = Capacity - 87

(***************************************************************************)
(* Properties of the LSB codec (checked under SpecLSB).                    *)
(***************************************************************************)

\* The image still carries the latest successfully embedded payload and
\* the call just made was extractLSB on it.
ExtractedAfterEmbed == lsbCall.op = "extract" /\ embedded # <<>>

\* C1: LSB round-trip: for every payload B with 4 + Len(B) within capacity,
\* the empty one included, extractLSB of the embedded image returns B.
C1_RoundTrip ==
    ExtractedAfterEmbed => lsbCall.threw = "none" /\ lsbCall.ret = embedded[1]

\* The same round-trip for the payloads of at least one byte.
C1_NonEmptyRoundTrip ==
    ExtractedAfterEmbed /\ Len(embedded[1]) > 0
        => lsbCall.threw = "none" /\ lsbCall.ret = embedded[1]

\* extractLSB of an image carrying the empty payload throws the
\* incomplete-extraction error.
C1_EmptyThrows ==
    ExtractedAfterEmbed /\ embedded[1] = <<>> => lsbCall.threw = "Incomplete"

\* C2: embedLSB leaves every alpha byte (index = 3 mod 4, 0-based) as it
\* was before the call, whether the call returned or threw.
C2_AlphaUnchanged ==
    lsbCall.op = "embed" =>
        /\ Len(imageData.data) = Len(lsbCall.pre)
        /\ \A k \in 1..Len(imageData.data) :
              (k - 1) % 4 = 3 => imageData.data[k] = lsbCall.pre[k]

\* An embed that returned and changed some colour channel of an image
\* whose alpha bytes are not all alike.
C2_Witness ==
    /\ lsbCall.op = "embed" /\ lsbCall.threw = "none"
    /\ imageData.data # lsbCall.pre
    /\ \E k \in 1..Len(imageData.data) : (k - 1) % 4 = 3 /\ imageData.data[k] % 2 = 1
    /\ \E k \in 1..Len(imageData.data) : (k - 1) % 4 = 3 /\ imageData.data[k] % 2 = 0

\* C3: embedLSB returns if and only if 4 + payload length is at most
\* floor(W*H*3/8); otherwise it throws the capacity error.
C3_CapacityBoundary ==
    lsbCall.op = "embed" =>
        LET need == 4 + Len(lsbCall.secretData)
            cap  == (imageData.width * imageData.height * 3) \div 8
        IN  /\ (lsbCall.threw = "none") <=> (need <= cap)
            /\ (lsbCall.threw = "DataTooLarge") <=> (need > cap)

\* An embed exactly at the boundary, of a payload of at least one byte.
C3_Witness ==
    /\ lsbCall.op = "embed" /\ lsbCall.threw = "none"
    /\ Len(lsbCall.secretData) > 0
    /\ 4 + Len(lsbCall.secretData) = (imageData.width * imageData.height * 3) \div 8

\* An embed one byte over the boundary.
C3_WitnessOver ==
    /\ lsbCall.op = "embed" /\ lsbCall.threw = "DataTooLarge"
    /\ 4 + Len(lsbCall.secretData) = (imageData.width * imageData.height * 3) \div 8 + 1

\* C4: when embedLSB throws the capacity error the whole pixel buffer is
\* byte-for-byte what it was before the call.
C4_NoWriteOnFailure ==
    lsbCall.op = "embed" /\ lsbCall.threw = "DataTooLarge"
        => imageData.data = lsbCall.pre

\* A capacity failure on an image large enough to hold some payload.
C4_Witness ==
    /\ lsbCall.op = "embed" /\ lsbCall.threw = "DataTooLarge"
    /\ (imageData.width * imageData.height * 3) \div 8 >= 4
    /\ imageData.data = lsbCall.pre

\* embedLSB has just returned normally.
Embedded == lsbCall.op = "embed" /\ lsbCall.threw = "none"

\* C17: bit placement: after a successful embed of B, with framed the
\* 4-byte big-endian length of B followed by B, the least-significant bit
\* of channel k mod 3 of pixel floor(k/3) is bit k of framed, for every k
\* below 8 * Len(framed).
C17_BitPlacement ==
    Embedded =>
        LET framed == <<0, 0, 0, Len(lsbCall.secretData)>> \o lsbCall.secretData
        IN  \A k \in 0..(8 * Len(framed) - 1) :
                imageData.data[ChannelPos(k)] % 2 = BitOf(framed, k)

\* A successful embed of two or more bytes that changed the image.
C17_Witness ==
    /\ Embedded
    /\ Len(lsbCall.secretData) >= 2
    /\ imageData.data # lsbCall.pre
    /\ imageData.data[ChannelPos(8 * (4 + Len(lsbCall.secretData)) - 1)] % 2
           = lsbCall.secretData[Len(lsbCall.secretData)] % 2

\* C18: footprint: a successful embed changes nothing except bit 0 of the
\* first 8 * (4 + Len(B)) channel bytes: the upper seven bits of every
\* byte, the alpha bytes and every channel byte after the last written bit
\* keep their values.
C18_Footprint ==
    Embedded =>
        LET nbits == 8 * (4 + Len(lsbCall.secretData)) IN
        /\ Len(imageData.data) = Len(lsbCall.pre)
        /\ \A pos \in 1..Len(imageData.data) :
              /\ imageData.data[pos] \div 2 = lsbCall.pre[pos] \div 2
              /\ (pos - 1) % 4 = 3 => imageData.data[pos] = lsbCall.pre[pos]
        /\ \A k \in nbits..(3 * (Len(imageData.data) \div 4) - 1) :
              imageData.data[ChannelPos(k)] = lsbCall.pre[ChannelPos(k)]

\* A successful embed that ends inside a pixel, changes some written
\* channel and leaves channels of both parities after the last written bit.
C18_Witness ==
    /\ Embedded
    /\ (8 * (4 + Len(lsbCall.secretData))) % 3 # 0
    /\ imageData.data # lsbCall.pre
    /\ \E k, m \in (8 * (4 + Len(lsbCall.secretData)))..(3 * (Len(imageData.data) \div 4) - 1) :
          /\ imageData.data[ChannelPos(k)] % 2 = 0
          /\ imageData.data[ChannelPos(m)] % 2 = 1

(***************************************************************************)
(* Properties of extractLSB on any image (checked under SpecExtract).      *)
(***************************************************************************)

\* extractLSB has just been called on imageData.
Extracted == lsbCall.op = "extract"

\* C15: on every image extractLSB throws the invalid-header error, or
\* throws the incomplete-extraction error, or returns exactly L bytes, L
\* being the big-endian value of the first 32 channel LSBs and the bytes
\* the following 8 * L channel LSBs, most significant bit first.
C15_ExtractSafety ==
    Extracted =>
        \/ lsbCall.threw = "InvalidHeader" /\ lsbCall.ret = <<>>
        \/ lsbCall.threw = "Incomplete" /\ lsbCall.ret = <<>>
        \/ /\ lsbCall.threw = "none"
           /\ Channels >= 32
           /\ ~TopBitSet
           /\ Len(lsbCall.ret) = Low31
           /\ 32 + 8 * Low31 <= Channels
           /\ \A m \in 1..Low31 : lsbCall.ret[m] = LSBByte(32 + 8 * (m - 1))

\* Two different bytes returned from an image that embedLSB never touched.
C15_Witness ==
    /\ Extracted /\ embedded = <<>> /\ lsbCall.threw = "none"
    /\ Len(lsbCall.ret) = 2 /\ lsbCall.ret[1] # lsbCall.ret[2]
    /\ lsbCall.ret[2] = LSBByte(40)

\* C19: when the unsigned value of the first 32 channel LSBs exceeds
\* floor(W*H*3/8), values of 2^31 and more included, extractLSB throws the
\* invalid-header error before it reads any data bit, and returns nothing.
C19_HeaderValidated ==
    Extracted /\ Channels >= 32 /\ (TopBitSet \/ Low31 > Capacity)
        => lsbCall.threw = "InvalidHeader" /\ lsbCall.ret = <<>> /\ lsbCall.dataBits = 0

\* A header with the top bit set on an image that has data channels.
C19_Witness ==
    /\ Extracted /\ Channels > 40 /\ TopBitSet /\ Low31 <= Capacity
    /\ lsbCall.threw = "InvalidHeader"

\* A header one above the capacity.
C19_WitnessOver ==
    /\ Extracted /\ Channels > 40 /\ ~TopBitSet /\ Low31 = Capacity + 1
    /\ lsbCall.threw = "InvalidHeader"

\* C20: when the declared length L passes validation but 32 + 8 * L
\* exceeds the number of channel bytes, and when the image has fewer than
\* 32 channel bytes, extractLSB throws the incomplete-extraction error and
\* returns no partial byte sequence.
C20_IncompleteExtraction ==
    Extracted
      /\ \/ Channels < 32
         \/ Channels >= 32 /\ ~TopBitSet /\ Low31 <= Capacity /\ 32 + 8 * Low31 > Channels
        => lsbCall.threw = "Incomplete" /\ lsbCall.ret = <<>>

\* A declared length within capacity that the channels cannot supply,
\* after a whole data byte was read.
C20_Witness ==
    /\ Extracted /\ Channels >= 32 /\ ~TopBitSet
    /\ Low31 <= Capacity /\ 32 + 8 * Low31 > Channels
    /\ lsbCall.dataBits >= 8 /\ lsbCall.threw = "Incomplete"

\* An image with fewer than 32 channel bytes.
C20_WitnessSmall ==
    Extracted /\ Channels < 32 /\ Channels > 0 /\ lsbCall.threw = "Incomplete"

\* C21: extractLSB stops at the declared length: an image of the same
\* dimensions whose first 32 + 8 * L channel LSBs agree gives the same
\* outcome, whatever its upper seven bits, its alpha bytes and its channels
\* after the last payload bit; and extractLSB leaves the pixel buffer as
\* it was.
C21_StopsAtLength ==
    [][lsbCall'.op = "extract" =>
          /\ imageData'.data = lsbCall'.pre
          /\ lsbCall.op = "extract" =>
                lsbCall'.threw = lsbCall.threw /\ lsbCall'.ret = lsbCall.ret]_vars

\* Bytes returned from an image whose alpha bytes, upper bits and later
\* channels all differ from those of the image before, which gave the same.
C21_Witness ==
    /\ Extracted /\ ncalls = 2 /\ lsbCall.threw = "none"
    /\ Len(lsbCall.ret) = 1
    /\ Channels >= 48
    /\ imageData.data[4] \in {255 - Fill(seed, 4)[4] : seed \in FillSeeds}
    /\ imageData.data[1] \div 2 \in {127 - (Fill(seed, 4)[1] \div 2) : seed \in FillSeeds}
    /\ imageData.data[Len(imageData.data) - 1]
           \in {255 - Fill(seed, Len(imageData.data))[Len(imageData.data) - 1] : seed \in FillSeeds}
    /\ lsbCall.dataBits = 8

(***************************************************************************)
(* Properties of embed sequences (checked under SpecSeq).                  *)
(***************************************************************************)

\* C25: last embed wins: after any sequence of embedLSB calls on the same
\* image, extractLSB returns the payload of the most recent successful
\* embed; an embed that fails leaves the payload embedded before it
\* recoverable.
C25_LastEmbedWins ==
    Extracted /\ Len(embedded) = 1
        => lsbCall.threw = "none" /\ lsbCall.ret = Head(embedded)

\* The same when the most recent successful embed had a payload of at
\* least one byte.
C25_LastNonEmptyEmbedWins ==
    Extracted /\ Len(embedded) = 1 /\ Head(embedded) # <<>>
        => lsbCall.threw = "none" /\ lsbCall.ret = Head(embedded)

\* When the most recent successful embed had the empty payload,
\* extractLSB throws the incomplete-extraction error.
C25_EmptyLastThrows ==
    Extracted /\ embedded = << <<>> >> => lsbCall.threw = "Incomplete"

\* A payload recovered after a later embed failed, and a shorter payload
\* recovered after it replaced a longer one.
C25_WitnessAfterFailure ==
    /\ Extracted /\ ncalls = 3 /\ embedded = << <<90>> >>
    /\ CapacityBytes(imageData.width, imageData.height) = 5
    /\ lsbCall.ret = <<90>>
C25_WitnessOverwrite ==
    /\ Extracted /\ ncalls = 3 /\ embedded = << <<90>> >>
    /\ CapacityBytes(imageData.width, imageData.height) = 6
    /\ LSBByte(40) = 90
    /\ lsbCall.ret = <<90>>

(***************************************************************************)
(* Concurrent engine calls.  encryptMessage and decryptMessage are async:  *)
(* a call runs to its next await (importKey and deriveKey inside           *)
(* deriveKey, then encrypt or decrypt), and other calls run in between.    *)
(* calls[c] holds the local variables of the c-th call made.               *)
(***************************************************************************)
ConcMessages == {<<65>>, <<233, 66>>}
NotAFrame == Uint8Array(<<71, 72>>)

Started == {c \in 1..MaxConc : calls[c].pc # "idle"}
Running == {c \in 1..MaxConc : calls[c].pc \notin {"idle", "done"}}

\* Frames a decryptMessage call can be given: the one in transit, or no
\* frame.
Frames == {packed, NotAFrame}

\* What the two window.crypto.getRandomValues calls of call c return.
RandomOf(c) ==
    [salt  |-> [k \in 1..32 |-> ((2 * c + 1) * k) % 256],
     nonce |-> [k \in 1..16 |-> (((2 * c + 1) * k) + 129) % 256]]

\* The salt a call hands to deriveKey: the one it generated (encryptMessage)
\* or the one it unpacked (decryptMessage).
SaltOf_shared(cs, c) ==
    LET last == CHOOSE d \in 1..MaxConc : \A x \in 1..MaxConc : cs[x].seq <= cs[d].seq
    IN  IF cs[last].kind = "enc" THEN cs[last].salt ELSE cs[last].parts.salt

SaltOf(cs, c) == IF cs[c].kind = "enc" THEN cs[c].salt ELSE cs[c].parts.salt

NonceOf(cs, c) == IF cs[c].kind = "enc" THEN cs[c].nonce ELSE cs[c].parts.nonce

\* A message was encrypted and packed; its frame is in transit.
InitConc ==
    /\ imageData = NoImage
    /\ lsbCall = NoCall
    /\ embedded = <<>>
    /\ ncalls = 0
    /\ \E r \in {encryptMessage({}, <<112, 119>>, <<65, 233>>,
                               RandomOf(0).salt, RandomOf(0).nonce)} :
          /\ cipher = {r.made}
          /\ enc = [password |-> <<112, 119>>, message |-> <<65, 233>>,
                    result |-> r.result]
          /\ packed = pack(r.result)
    /\ flipped = -1
    /\ unpacked = Null
    /\ dec = NoDec
    /\ stage = "packed"
    /\ PageIdle
    /\ calls = NoCalls

\* encryptMessage(password, message) up to its first await: the message is
\* encoded, salt and nonce are drawn, deriveKey calls importKey.
CallEncrypt(c, password, message, rnd) ==
    /\ c = Cardinality(Started) + 1
    /\ calls' = [calls EXCEPT ![c] =
                   [IdleCall EXCEPT !.kind = "enc", !.pc = "import",
                                    !.seq = c, !.overlap = Running # {},
                                    !.password = password, !.message = message,
                                    !.salt = rnd.salt, !.nonce = rnd.nonce]]
    /\ UNCHANGED <<lsbVars, protoVars, pageVars>>

\* decryptMessage(password, packedBytes) up to its first await: unpack,
\* the throw for null, else deriveKey calls importKey.
CallDecrypt(c, password, packedBytes) ==
    /\ c = Cardinality(Started) + 1
    /\ LET parts == unpack(packedBytes)
           call  == [IdleCall EXCEPT !.kind = "dec",
                                     !.seq = c, !.overlap = Running # {},
                                     !.password = password,
                                     !.packedBytes = packedBytes, !.parts = parts]
       IN  calls' = [calls EXCEPT ![c] =
                       IF parts.isNull
                       THEN [call EXCEPT !.pc = "done", !.threw = "Invalid Ghost Header"]
                       ELSE [call EXCEPT !.pc = "import"]]
    /\ UNCHANGED <<lsbVars, protoVars, pageVars>>

\* deriveKey: await crypto.subtle.importKey(...) returns the key material.
ImportReturns(c) ==
    /\ calls[c].pc = "import"
    /\ calls' = [calls EXCEPT ![c] =
                   [@ EXCEPT !.pc = "derive", !.key = Utf8Encode(calls[c].password)]]
    /\ UNCHANGED <<lsbVars, protoVars, pageVars>>

\* deriveKey: crypto.subtle.deriveKey(...) returns the key; encrypt or
\* decrypt is called with it.
DeriveReturns(c) ==
    /\ calls[c].pc = "derive"
    /\ calls' = [calls EXCEPT ![c] =
                   [@ EXCEPT !.pc = "crypt",
                             !.key = deriveKey(calls[c].key, SaltOf(calls, c))]]
    /\ UNCHANGED <<lsbVars, protoVars, pageVars>>

\* await crypto.subtle.encrypt(...) / decrypt(...) settles and the call
\* returns or throws.
CryptReturns(c) ==
    /\ calls[c].pc = "crypt"
    /\ IF calls[c].kind = "enc"
       THEN LET msgBytes        == Utf8Encode(calls[c].message)
                encryptedBuffer == AesGcmEncrypt(cipher, calls[c].key, NonceOf(calls, c),
                                                 msgBytes)
                tagOffset       == Len(encryptedBuffer) - 16
                ciphertext      == Slice(encryptedBuffer, 0, tagOffset)
                tag             == Slice(encryptedBuffer, tagOffset, Len(encryptedBuffer))
            IN  /\ calls' = [calls EXCEPT ![c] =
                               [@ EXCEPT !.pc = "done",
                                         !.result = [salt |-> calls[c].salt,
                                                     nonce |-> calls[c].nonce,
                                                     ciphertext |-> ciphertext,
                                                     tag |-> tag]]]
                /\ cipher' = cipher \cup {[key |-> calls[c].key, iv |-> NonceOf(calls, c),
                                           ct |-> ciphertext, tag |-> tag,
                                           pt |-> msgBytes]}
       ELSE LET parts         == calls[c].parts
                cipherWithTag == SetAt(SetAt(Zeros(Len(parts.ciphertext) + 16),
                                             parts.ciphertext, 0),
                                       parts.tag, Len(parts.ciphertext))
                decrypted     == AesGcmDecrypt(cipher, calls[c].key, NonceOf(calls, c),
                                               cipherWithTag)
            IN  /\ calls' = [calls EXCEPT ![c] =
                               IF decrypted.ok
                               THEN [@ EXCEPT !.pc = "done",
                                              !.ret = Utf8Decode(decrypted.data)]
                               ELSE [@ EXCEPT !.pc = "done",
                                       !.threw = "Wrong password or corrupted data."]]
                /\ cipher' = cipher
    /\ UNCHANGED <<enc, packed, flipped, unpacked, dec, stage>>
    /\ UNCHANGED <<lsbVars, pageVars>>

NextConc ==
    \E c \in 1..MaxConc :
        \/ \E password \in Passwords, message \in ConcMessages :
              CallEncrypt(c, password, message, RandomOf(c))
        \/ \E password \in Passwords, packedBytes \in Frames :
              CallDecrypt(c, password, packedBytes)
        \/ ImportReturns(c)
        \/ DeriveReturns(c)
        \/ CryptReturns(c)

SpecConc == InitConc /\ [][NextConc]_vars

(***************************************************************************)
(* Properties of the submit handlers (SpecPage).                           *)
(***************************************************************************)
IsPrefix(s, t) == Len(s) <= Len(t) /\ \A i \in 1..Len(s) : s[i] = t[i]
Failed(r) == reqs[r].failedAt # "none"

\* C22: the steps of a pipeline run in the order encrypt, pack, embed,
\* export, display (hide) and extract, unpack, derive, decrypt, display
\* (reveal); the step that failed is the last one that ran, no key
\* derivation or cipher call follows an unpack that returned null, and a
\* failed handler has displayed nothing.
C22_PipelineOrder ==
    \A r \in 1..MaxSubmits :
        /\ IsPrefix(reqs[r].trace, PipelineOrder(reqs[r].form))
        /\ Failed(r) => /\ reqs[r].trace # <<>>
                        /\ reqs[r].trace[Len(reqs[r].trace)] = reqs[r].failedAt
                        /\ reqs[r].pc = "done"
                        /\ dom.downloadHref # r /\ dom.revealedMessage # r
        /\ reqs[r].unpackNull =>
              \A i \in 1..Len(reqs[r].trace) :
                  reqs[r].trace[i] \notin {"derive", "decrypt", "display"}

\* C22: a handler that failed runs no further step.
C22_AbortIsFinal ==
    [][\A r \in 1..MaxSubmits : Failed(r) => reqs'[r] = reqs[r]]_vars

C22_Witness ==
    \E r \in 1..MaxSubmits : reqs[r].unpackNull /\ reqs[r].pc = "done"

C22_WitnessDisplayed ==
    \E r, q \in 1..MaxSubmits :
        /\ reqs[r].form = "dec" /\ reqs[r].outcome = "offlineResult"
        /\ reqs[q].form = "enc" /\ reqs[q].failedAt = "embed"

ResultHidden(d, form) == IF form = "enc" THEN d.encResultHidden ELSE d.decResultHidden
ResultShown(d, form) == IF form = "enc" THEN d.downloadHref ELSE d.revealedMessage
Succeeded(r) == reqs[r].outcome \in {"serverResult", "offlineResult"}
EndedInError(r) == reqs[r].outcome \in {"serverError", "offlineError"}

\* C24: outside offline mode a handler starts offline processing only when
\* the request failed; after a response the handler ends with the server's
\* result or the server's error.
C24_OfflineOnlyIfUnreachable ==
    ~isOffline =>
        \A r \in 1..MaxSubmits :
            /\ reqs[r].offline => reqs[r].server = "unreachable"
            /\ reqs[r].server = "response" /\ reqs[r].pc = "done"
                  => reqs[r].outcome \in {"serverResult", "serverError"}

\* C27: every handler started by a submit ends, with the loader hidden by
\* its success display or its error alert.
C27_LoaderLiveness ==
    \A r \in 1..MaxSubmits :
        (reqs[r].pc # "idle") ~> (reqs[r].pc = "done" /\ dom.loaderHidden)

\* The only handlers that never continue are those awaiting getImageData
\* on a file that does not load.
C27_HangsOnlyOnImage ==
    \A r \in InFlight :
        ~ENABLED Continues(r) <=> reqs[r].pc = "image" /\ reqs[r].file = "broken"

\* C28: the loader is visible while a handler started by a submit has not
\* finished.
C28_LoaderReflectsInFlight ==
    InFlight # {} => ~dom.loaderHidden

\* C29: once nothing is in flight, if two or more overlapping submits of a
\* form succeeded, the form's result area shows the result of the one
\* submitted last.
C29_LatestRequestWins ==
    \A form \in Forms :
        LET done == {r \in 1..MaxSubmits : reqs[r].form = form /\ Succeeded(r)}
            latest == CHOOSE r \in done : \A q \in done : q <= r
        IN  InFlight = {} /\ Cardinality(done) >= 2 /\ reqs[latest].overlap
                => ResultShown(dom, form) = latest

\* C30: when a handler ends in an error, its form's result area shows no
\* result of an earlier submit.
C30_NoStaleResult ==
    [][\A r \in 1..MaxSubmits :
          ~EndedInError(r) /\ EndedInError(r)'
              => \/ ResultHidden(dom', reqs'[r].form)
                 \/ ResultShown(dom', reqs'[r].form) = 0]_vars

(***************************************************************************)
(* Properties of concurrent engine calls (SpecConc).                       *)
(***************************************************************************)
Returned(c) == calls[c].pc = "done"
Overlapped ==
    \E c, d \in 1..MaxConc :
        /\ c # d /\ Returned(c) /\ Returned(d)
        /\ calls[c].seq < calls[d].seq

\* C23: whatever the interleaving, a call returns what it returns when run
\* alone: encryptMessage its own salt and nonce, the ciphertext of its
\* message under the key of its password and salt and a tag that
\* authenticates them; decryptMessage the outcome of an uninterrupted
\* decryptMessage on its arguments.
C23_Isolation ==
    \A c \in 1..MaxConc :
        Returned(c) =>
            IF calls[c].kind = "enc"
            THEN LET alone == encryptMessage({}, calls[c].password, calls[c].message,
                                             calls[c].salt, calls[c].nonce)
                 IN  /\ calls[c].result.salt = alone.result.salt
                     /\ calls[c].result.nonce = alone.result.nonce
                     /\ calls[c].result.ciphertext = alone.result.ciphertext
                     /\ [alone.made EXCEPT !.tag = calls[c].result.tag] \in cipher
            ELSE LET alone == decryptMessage(cipher, calls[c].password,
                                             calls[c].packedBytes)
                 IN  /\ calls[c].threw = alone.threw
                     /\ calls[c].ret = alone.ret

\* Two calls ran interleaved and both returned: an encryption, and a
\* decryption that started before the encryption returned.
C23_Witness ==
    \E c, d \in 1..MaxConc :
        /\ calls[c].kind = "enc" /\ calls[d].kind = "dec"
        /\ Returned(c) /\ Returned(d)
        /\ calls[d].threw = "none" /\ calls[d].ret # <<>>
        /\ calls[d].overlap
        /\ calls[d].password # calls[c].password

====
